---- MODULE Spec2Model ----
(***************************************************************************)
(* Verification model of thanyathonk/data_pipeline.                        *)
(*                                                                         *)
(* Text values are sequences of one-character strings, so that the key     *)
(* normalisers, numeric coercions and string comparisons of the code are   *)
(* computed and not assumed.  A data frame is a record                     *)
(*   [columns |-> <<column names>>, rows |-> <<records over the columns>>] *)
(* in row order, as pandas keeps it.                                       *)
(***************************************************************************)
EXTENDS Integers, Sequences, FiniteSets, Bags, TLC

VARIABLES
  pc,               \* position of the program under study
  \* ---- core/merge_data_all_ages.py ----
  patient_csv, report_csv, serious_csv, reporter_csv,   \* the four ER tables
  join_type, chunksize,     \* --join-type, rows per patient chunk
  offset,                   \* patient rows already consumed by the chunk reader
  out_csv,                  \* patients_report_serious_reporter.csv.gz
  wrote_header, merged_total, age_null_total,
  out_stats,                \* patients_report_serious_reporter_stats.json
  \* ---- stage4_merge_back.py and run_pipeline.fallback_stage7_and_stage8 ----
  baseline_csv, drug_map_csv, rxnorm_csv, adr_map_csv,   \* input files
  std_pt_csv, std_soc_csv,  \* standard_reactions(_meddra_soc).csv.gz
  drug_mapped, adr_mapped,  \* frames of stage4_merge_back.main
  final_df,                 \* the final table written by stage4_merge_back
  stats,                    \* the coverage statistics written by stage4_merge_back
  fb_drug, fb_adr,          \* tables drug and adr of fb_merge_index.sqlite
  fb_final,                 \* the final table written by the fallback merger
  \* ---- core/openFDA_Entity_Relationship_Tables_v2.py, ingredients ----
  concept, concept_relationship,   \* CONCEPT.csv, CONCEPT_RELATIONSHIP.csv
  rx_ids,                   \* all_openFDA_rxnorm_concept_ids.pkl
  standard_drugs,           \* standard_drugs.csv.gz
  std_ing,                  \* standard_drugs_rxnorm_ingredients.csv.gz
  \* ---- the same script, MedDRA hierarchy ----
  std_rx,                   \* standard_reactions.csv.gz of the ER tables
  med_rel,                  \* standard_reactions_meddra_relationships.csv.gz
  pt_to_hlt, pt_to_hlgt, pt_to_soc,  \* standard_reactions_meddra_{hlt,hlgt,soc}
  \* ---- enrich/ADR.py ----
  adr_dict,                 \* adr_dict.csv.gz
  concept_ancestor,         \* CONCEPT_ANCESTOR.csv
  adr_std_pt, adr_std_soc,  \* standard_reactions(_meddra_soc).csv.gz it writes
  \* ---- openFDA_Entity_Relationship_Tables_v2.py: tables built from shards ----
  shards,                   \* the shard files, in the order of sorted(glob)
  done,                     \* the submitted reads that have completed
  parts,                    \* concat_files: parts, in completion order
  patient_out,              \* patient.csv.gz
  er_report_out,            \* report, report_serious, reporter .csv.gz
  \* ---- split/split_adr.py, split/split_drug.py ----
  split_stage,              \* "adr" or "drug"
  split_base,               \* --base-csv: given or not, its rows
  split_in,                 \* reactions.csv.gz / drugcharacteristics.csv.gz
  sid_db,                   \* <stage>_sid_index.sqlite: the file and table sids
  split_pos,                \* rows of the file being streamed that are consumed
  split_map,                \* adr_map.csv.gz / drug_map.csv.gz
  split_dict,               \* adr_dict.csv.gz / drug_dict.csv.gz
  dict_map,                 \* dict_map: the texts seen, in order
  index_log,                \* the statements run on table sids, in order
  \* ---- run_pipeline.py ----
  files,                    \* the state of every .gz file of the pipeline
  pipe_log,                 \* the reads of the child scripts so far
  skipped,                  \* the outputs found ready by a skipped stage
  verified,                 \* the files the preflight of this run verified
  runs,                     \* how many times run_pipeline was started
  force,                    \* --force was given to this run
  \* ---- load_vocab, step_standard_drugs ----
  vocab_files,              \* the lines of CONCEPT.csv, CONCEPT_RELATIONSHIP.csv, drugs.csv.gz
  concept_loaded,           \* concept, as load_vocab returned it
  relationship_loaded,      \* concept_relationship, as load_vocab returned it
  std_drugs_file,           \* standard_drugs.csv.gz, as step_standard_drugs wrote it
  rxnorm_ids,               \* all_openFDA_rxnorm_concept_ids.pkl
  vocab_error,              \* the exception that ended the run, "" if none
  \* ---- the report-key normalizers ----
  sid_raw,                  \* a safetyreportid value as a stage reads it
  sid_keys,                 \* the key each normalizer applied so far made of it
  \* ---- merge_data_all_ages.main: the locals of the chunk loop ----
  loop_step,                \* the position inside the loop body
  loop_ids,                 \* ids: the key set of the patient chunk
  loop_rep,                 \* rep: the filtered slice of report
  loop_ser,                 \* ser: the filtered slice of report_serious
  loop_rtr,                 \* rtr: the filtered slice of reporter
  loop_base,                \* base: the joined frame of the chunk
  \* ---- common_utils.RateLimiter shared by the worker threads of rxnav_enrich ----
  min_interval,             \* RateLimiter.min_interval, in clock ticks
  rl_next,                  \* RateLimiter._next
  clock,                    \* time.monotonic(), in ticks
  th_pc,                    \* the position of each worker thread inside wait()
  th_now,                   \* the local now of each thread
  th_wake,                  \* the time at which the sleep of each thread ends
  th_max,                   \* max(self._next, now) as each thread evaluated it
  th_calls,                 \* the number of calls of wait() each thread has made
  released,                 \* the times at which calls of wait() returned
  \* ---- production_drugbank_scraper.ProductionScraper ----
  unique_ingredients,       \* the distinct ingredients of the input file, in file order
  cache_file,               \* the keys of the cache on disk
  progress_file,            \* current_batch of progress.json
  scr_cache,                \* self.cache: the keys of the cache in memory
  scr_batches,              \* run: batches
  scr_batch,                \* run: the number of batches of the list the loop has passed
  scr_item,                 \* process_batch: the number of items of the batch done
  scr_pc,                   \* where the scraper process is
  scr_runs,                 \* the number of times the scraper was started
  scr_last                  \* how the last run ended

merge_vars == <<patient_csv, report_csv, serious_csv, reporter_csv, join_type,
                chunksize, offset, out_csv, wrote_header, merged_total,
                age_null_total, out_stats>>

stage4_vars == <<baseline_csv, drug_map_csv, rxnorm_csv, adr_map_csv, std_pt_csv,
                 std_soc_csv, drug_mapped, adr_mapped, final_df, stats, fb_drug,
                 fb_adr, fb_final>>

ing_vars == <<concept, concept_relationship, rx_ids, standard_drugs, std_ing>>

hier_vars == <<std_rx, med_rel, pt_to_hlt, pt_to_hlgt, pt_to_soc>>

adr_vars == <<adr_dict, concept_ancestor, adr_std_pt, adr_std_soc>>

er_vars == <<shards, done, parts, patient_out, er_report_out>>

split_vars == <<split_stage, split_base, split_in, sid_db, split_pos, split_map,
                split_dict, dict_map, index_log>>

pipe_vars == <<files, pipe_log, skipped, verified, runs, force>>

vocab_vars == <<vocab_files, concept_loaded, relationship_loaded, std_drugs_file, rxnorm_ids,
                vocab_error>>

keys_vars == <<sid_raw, sid_keys>>

loop_vars == <<loop_step, loop_ids, loop_rep, loop_ser, loop_rtr, loop_base>>

limiter_vars == <<min_interval, rl_next, clock, th_pc, th_now, th_wake, th_max, th_calls, released>>

scraper_vars == <<unique_ingredients, cache_file, progress_file, scr_cache, scr_batches, scr_batch, scr_item, scr_pc, scr_runs, scr_last>>

vars == <<pc, merge_vars, stage4_vars, ing_vars, hier_vars, adr_vars, er_vars, split_vars,
          pipe_vars, vocab_vars,
          keys_vars,
          loop_vars,
          limiter_vars,
          scraper_vars>>

\* what the programs other than the one named leave alone
except_keys   == <<merge_vars, stage4_vars, ing_vars, hier_vars, adr_vars, er_vars, split_vars, pipe_vars, vocab_vars,
                   loop_vars,
                   limiter_vars,
                   scraper_vars>>
except_loop   == <<merge_vars, stage4_vars, ing_vars, hier_vars, adr_vars, er_vars, split_vars, pipe_vars, vocab_vars, keys_vars,
                   limiter_vars,
                   scraper_vars>>
except_limiter == <<merge_vars, stage4_vars, ing_vars, hier_vars, adr_vars, er_vars, split_vars, pipe_vars, vocab_vars, keys_vars, loop_vars,
                   scraper_vars>>
except_scraper == <<merge_vars, stage4_vars, ing_vars, hier_vars, adr_vars, er_vars, split_vars, pipe_vars, vocab_vars, keys_vars, loop_vars, limiter_vars>>
except_merge  == <<stage4_vars, ing_vars, hier_vars, adr_vars, er_vars, split_vars,
                   pipe_vars, vocab_vars,
                   keys_vars,
                   loop_vars,
                   limiter_vars,
                   scraper_vars>>
except_stage4 == <<merge_vars, ing_vars, hier_vars, adr_vars, er_vars, split_vars,
                   pipe_vars, vocab_vars,
                   keys_vars,
                   loop_vars,
                   limiter_vars,
                   scraper_vars>>
except_ing    == <<merge_vars, stage4_vars, hier_vars, adr_vars, er_vars, split_vars,
                   pipe_vars, vocab_vars,
                   keys_vars,
                   loop_vars,
                   limiter_vars,
                   scraper_vars>>
except_hier   == <<merge_vars, stage4_vars, rx_ids, standard_drugs, std_ing, adr_vars, er_vars, split_vars,
                   pipe_vars, vocab_vars,
                   keys_vars,
                   loop_vars,
                   limiter_vars,
                   scraper_vars>>
except_adr    == <<merge_vars, stage4_vars, concept_relationship, rx_ids, standard_drugs,
                   std_ing, hier_vars, er_vars, split_vars, pipe_vars, vocab_vars,
                   keys_vars,
                   loop_vars,
                   limiter_vars,
                   scraper_vars>>
except_er     == <<merge_vars, stage4_vars, ing_vars, hier_vars, adr_vars, split_vars,
                   pipe_vars, vocab_vars,
                   keys_vars,
                   loop_vars,
                   limiter_vars,
                   scraper_vars>>
except_pipe   == <<merge_vars, stage4_vars, ing_vars, hier_vars, adr_vars, er_vars,
                   split_vars, vocab_vars,
                   keys_vars,
                   loop_vars,
                   limiter_vars,
                   scraper_vars>>
except_vocab  == <<merge_vars, stage4_vars, ing_vars, hier_vars, adr_vars, er_vars,
                   split_vars, pipe_vars,
                   keys_vars,
                   loop_vars,
                   limiter_vars,
                   scraper_vars>>
except_split  == <<merge_vars, stage4_vars, ing_vars, hier_vars, adr_vars, er_vars,
                   pipe_vars, vocab_vars,
                   keys_vars,
                   loop_vars,
                   limiter_vars,
                   scraper_vars>>

----------------------------------------------------------------------------
(* Bounds *)
MaxRows  == 5      \* total number of rows over the four ER tables
MaxChunk == 2      \* largest patient chunk size tried
MaxJoinRows == 4   \* rows of the four ER tables together, join types other than inner
FilterChunk == 2   \* rows per chunk read by _filter_by_ids (1_000_000 in the code)
MaxLoopRows == 4   \* rows of the four ER tables together, loop followed statement by statement
NumThreads == 2    \* worker threads that share the rate limiter
MaxCalls == 2      \* calls of wait() of one thread
Interval == 2      \* 1/qps in clock ticks
MaxClock == 6      \* last tick of the monotonic clock
MaxIngredients == 6 \* distinct ingredients of the input file
MaxScraperRuns == 3 \* starts of the scraper
BATCH_SIZE == 2    \* 50 in the code
ITEM_CHECKPOINT_EVERY == 1  \* 10 in the code: a fifth of a batch
CHECKPOINT_INTERVAL == 2    \* 10 in the code
MaxS4Rows == 5     \* total number of rows over baseline, drug_map and adr_map
NumConcepts == 3   \* concepts of the general relationship graphs
MaxEdges == 3      \* distinct edges of the general relationship graphs
MaxAncRows == 3    \* rows of CONCEPT_ANCESTOR.csv
MaxShardRows == 2  \* rows of one shard file; two shards hold three rows at most
MaxSplitRows == 2  \* rows of the baseline and of the input of a split stage
MaxRuns == 2       \* starts of run_pipeline
MaxVocabRows == 2  \* lines of CONCEPT.csv
MaxSidLen == 4     \* characters of a key value
SplitChunkRows == 2  \* largest chunk of the split stages tried (200_000 to 2_000_000 in the code)
LookupStep == 1    \* keys per lookup batch (50_000 in the code)
MaxHops == 6       \* longest chain tried: the five hop tables reach six levels

----------------------------------------------------------------------------
(* Values and data frames *)
NaN   == <<"NaN">>      \* pandas missing value (an empty CSV field)
None  == <<"None">>     \* Python None

isna(x) == x \in {NaN, None}

Range(s) == {s[i] : i \in DOMAIN s}

RECURSIVE Concat(_)
Concat(ss) == IF ss = <<>> THEN <<>> ELSE Head(ss) \o Concat(Tail(ss))

Min(a, b) == IF a <= b THEN a ELSE b

BagOfSeq(s) == [x \in Range(s) |-> Cardinality({i \in DOMAIN s : s[i] = x})]

IdxStr == <<"1", "2", "3", "4", "5", "6", "7", "8", "9">>

NoFrame == [columns |-> <<>>, rows |-> <<>>]

\* the rows at the positions that satisfy P, in order
KeepRows(rows, P(_)) ==
  LET idx == SelectSeq([i \in DOMAIN rows |-> i], P)
  IN [k \in DOMAIN idx |-> rows[idx[k]]] \o <<>>

\* df[col] = df[col].map(f)
MapCol(df, col, f(_)) ==
  [df EXCEPT !.rows = [i \in DOMAIN df.rows |-> [df.rows[i] EXCEPT ![col] = f(@)]] \o <<>>]

\* df[[cols]] / df.loc[:, cols]
project(df, cols) ==
  [columns |-> cols,
   rows |-> [i \in DOMAIN df.rows |-> [c \in Range(cols) |-> df.rows[i][c]] @@ <<>>] \o <<>>]

\* df.rename(columns=ren), ren an injective renaming
rename(df, ren(_)) ==
  [columns |-> [i \in DOMAIN df.columns |-> ren(df.columns[i])] \o <<>>,
   rows    |-> [i \in DOMAIN df.rows |->
                  [c \in {ren(d) : d \in Range(df.columns)} |->
                     df.rows[i][CHOOSE d \in Range(df.columns) : ren(d) = c]] @@ <<>>]
               \o <<>>]

\* df.dropna(subset=subset)
dropna(df, subset) ==
  [df EXCEPT !.rows = SelectSeq(@, LAMBDA r : \A c \in subset : ~isna(r[c]))]

\* a variant that keeps every row
keep_all_rows(df, subset) == df

\* df.drop_duplicates(subset): the first row of every group of rows that
\* agree on the subset columns (missing values agree with each other)
drop_duplicates(df, subset) ==
  [df EXCEPT !.rows =
     KeepRows(df.rows, LAMBDA i : \A j \in 1..(i - 1) :
                          \E c \in subset : df.rows[j][c] # df.rows[i][c])]

\* the rows of a merge: src lists the source column of every output column
\* (the nl columns of the left frame first), keys the key columns that both
\* frames share under one name.  A row of side "L" is a left row without a
\* partner, a row of side "R" a right row without a partner.
merge_rows(left, right, lon, ron, how, cols, src, nl, keys) ==
  LET row(l, r, side) ==
        [c \in Range(cols) |->
           LET i == CHOOSE k \in DOMAIN cols : cols[k] = c
           IN IF i <= nl
              THEN IF side # "R" THEN l[src[i]]
                   ELSE IF src[i] \in keys THEN r[src[i]] ELSE NaN
              ELSE IF side # "L" THEN r[src[i]] ELSE NaN] @@ <<>>
      left_of(l) ==
        LET m == SelectSeq(right.rows, LAMBDA r : \A k \in DOMAIN lon : l[lon[k]] = r[ron[k]])
        IN IF m # <<>> THEN [j \in DOMAIN m |-> row(l, m[j], "B")] \o <<>>
           ELSE IF how \in {"left", "outer"} THEN <<row(l, <<>>, "L")>> ELSE <<>>
      right_of(r, all) ==
        LET m == SelectSeq(left.rows, LAMBDA l : \A k \in DOMAIN lon : l[lon[k]] = r[ron[k]])
        IN IF m = <<>> THEN <<row(<<>>, r, "R")>>
           ELSE IF all THEN [j \in DOMAIN m |-> row(m[j], r, "B")] \o <<>> ELSE <<>>
  IN IF how = "right"
     THEN Concat([i \in DOMAIN right.rows |-> right_of(right.rows[i], TRUE)] \o <<>>)
     ELSE Concat([i \in DOMAIN left.rows |-> left_of(left.rows[i])] \o <<>>)
          \o (IF how = "outer"
              THEN Concat([i \in DOMAIN right.rows |-> right_of(right.rows[i], FALSE)] \o <<>>)
              ELSE <<>>)

\* the output columns: a non-key column name present on both sides gets the
\* suffix _x on the left and _y on the right
merge_columns(src, nl, overlap) ==
  [i \in DOMAIN src |-> IF src[i] \in overlap
                        THEN src[i] \o (IF i <= nl THEN "_x" ELSE "_y") ELSE src[i]] \o <<>>

merge_kept(left, right, lon, ron, how, rkept) ==
  [columns |-> merge_columns(left.columns \o rkept, Len(left.columns),
                             Range(left.columns) \cap Range(rkept)),
   rows |-> merge_rows(left, right, lon, ron, how,
                       merge_columns(left.columns \o rkept, Len(left.columns),
                                     Range(left.columns) \cap Range(rkept)),
                       left.columns \o rkept, Len(left.columns),
                       IF lon = ron THEN Range(lon) ELSE {})]

\* df.drop_duplicates() over all columns
drop_duplicates_rows(df) == drop_duplicates(df, Range(df.columns))

\* df.drop(columns=[col])
drop(df, col) == project(df, SelectSeq(df.columns, LAMBDA c : c # col))

\* pandas DataFrame.merge(right, left_on=lon, right_on=ron, how=how); with
\* lon = ron it is merge(on=lon) and the key columns appear once.  Equal
\* keys match, two missing keys included; a side without a partner is
\* filled with NaN; a non-key column name present on both sides gets the
\* suffixes _x and _y.  Row order: inner/left follow the left frame, right
\* follows the right frame, outer lists the left frame's rows and then the
\* unmatched right rows.
merge(left, right, lon, ron, how) ==
  merge_kept(left, right, lon, ron, how,
             IF lon = ron THEN SelectSeq(right.columns, LAMBDA c : c \notin Range(ron))
             ELSE right.columns)

\* pd.concat([a, b], ignore_index=True, sort=False): the rows of a, then
\* those of b, over the columns of a followed by the new columns of b
concat(a, b) ==
  LET cols == a.columns \o SelectSeq(b.columns, LAMBDA c : c \notin Range(a.columns))
      pad(r, own) == [c \in Range(cols) |-> IF c \in own THEN r[c] ELSE NaN] @@ <<>>
  IN [columns |-> cols,
      rows |-> [i \in DOMAIN a.rows |-> pad(a.rows[i], Range(a.columns))]
               \o [i \in DOMAIN b.rows |-> pad(b.rows[i], Range(b.columns))]]

\* the set of values of a column: Series.unique()
unique(df, col) == {df.rows[i][col] : i \in DOMAIN df.rows}

\* DataFrame.to_csv without the header: one line per row, the values in
\* column order
csv_lines(df) == [i \in DOMAIN df.rows |->
                    [j \in DOMAIN df.columns |-> df.rows[i][df.columns[j]]] \o <<>>] \o <<>>

RECURSIVE lstrip(_)
lstrip(s) == IF s # <<>> /\ Head(s) = " " THEN lstrip(Tail(s)) ELSE s

RECURSIVE rstrip(_)
rstrip(s) == IF s # <<>> /\ s[Len(s)] = " " THEN rstrip(SubSeq(s, 1, Len(s) - 1)) ELSE s

\* str.strip()
strip(s) == rstrip(lstrip(s))

\* str.endswith(".0")
endswith_dot0(v) == Len(v) >= 2 /\ v[Len(v) - 1] = "." /\ v[Len(v)] = "0"

Digits == {"0", "1", "2", "3", "4", "5", "6", "7", "8", "9"}
IsDigits(v) == v # <<>> /\ \A i \in DOMAIN v : v[i] \in Digits

\* pd.to_numeric(errors="coerce") on one value: a number for digit text,
\* NaN for anything else
to_numeric(v) == IF ~isna(v) /\ IsDigits(v) THEN <<"num">> \o v ELSE NaN

----------------------------------------------------------------------------
(* core/merge_data_all_ages.py *)

\* _to_str_sid: None for a missing value, else the stripped text without a
\* trailing ".0"
merge_to_str_sid(s) ==
  IF isna(s) THEN None
  ELSE LET v == strip(s)
       IN IF endswith_dot0(v) THEN SubSeq(v, 1, Len(v) - 2) ELSE v

KEY == "safetyreportid"

\* add_prefix: every column but the key gets the prefix
add_prefix(df, prefix) == rename(df, LAMBDA c : IF c = KEY THEN c ELSE prefix \o c)

\* the chunks pd.read_csv(path, chunksize=n) yields, in file order
RECURSIVE read_chunks(_, _)
read_chunks(rows, n) ==
  IF rows = <<>> THEN <<>>
  ELSE <<SubSeq(rows, 1, Min(n, Len(rows)))>>
       \o read_chunks(SubSeq(rows, Min(n, Len(rows)) + 1, Len(rows)), n)

\* a variant that compares the keys as written in the file
filter_by_ids_raw(file, id_set) ==
  LET keep == SelectSeq(file.rows, LAMBDA r : r[KEY] \in id_set)
  IN IF keep # <<>> THEN [columns |-> file.columns, rows |-> keep]
     ELSE [columns |-> <<KEY>>, rows |-> <<>>]

\* _filter_by_ids: the rows of the file whose normalised key is in id_set,
\* chunk by chunk; a chunk without the key column is skipped, and a file
\* without matching rows yields an empty frame that has the key column only
filter_by_ids(file, id_set) ==
  LET chunks == read_chunks(file.rows, FilterChunk)
      kept(ch) ==
        IF KEY \notin Range(file.columns) THEN <<>>
        ELSE SelectSeq([i \in DOMAIN ch |-> [ch[i] EXCEPT ![KEY] = merge_to_str_sid(@)]] \o <<>>,
                       LAMBDA r : r[KEY] \in id_set)
      keep == SelectSeq([i \in DOMAIN chunks |-> kept(chunks[i])] \o <<>>, LAMBDA k : k # <<>>)
  IN IF keep # <<>> THEN [columns |-> file.columns, rows |-> Concat(keep)]
     ELSE [columns |-> <<KEY>>, rows |-> <<>>]

\* the columns whose name contains "patient_custom_master_age"
age_like_cols(df) ==
  SelectSeq(df.columns, LAMBDA c : c \in {"patient_patient_custom_master_age"})

\* the body of the loop of main for one patient chunk pch: the joined frame
\* with its age columns coerced to numbers
merge_chunk(pch, rep_file, ser_file, rtr_file, how) ==
  LET p    == MapCol(pch, KEY, merge_to_str_sid)
      ids  == {r[KEY] : r \in {x \in Range(p.rows) : ~isna(x[KEY])}}
      rep  == filter_by_ids(rep_file, ids)
      ser  == filter_by_ids(ser_file, ids)
      rtr  == filter_by_ids(rtr_file, ids)
      b1   == merge(add_prefix(p, "patient_"), add_prefix(rep, "report_"), <<KEY>>, <<KEY>>, how)
      b2   == merge(b1, add_prefix(ser, "serious_"), <<KEY>>, <<KEY>>, how)
      b3   == merge(b2, add_prefix(rtr, "reportr_"), <<KEY>>, <<KEY>>, how)
      ages == Range(age_like_cols(b3))
  IN [b3 EXCEPT !.rows = [i \in DOMAIN b3.rows |->
        [c \in DOMAIN b3.rows[i] |->
           IF c \in ages THEN to_numeric(b3.rows[i][c]) ELSE b3.rows[i][c]] @@ <<>>] \o <<>>]

\* one iteration of "for pch in pd.read_csv(patient_path, chunksize=...)":
\* join the chunk and append the result to the output file
MergeChunk ==
  /\ pc = "merge"
  /\ offset < Len(patient_csv.rows)
  /\ LET last == Min(offset + chunksize, Len(patient_csv.rows))
         pch  == [columns |-> patient_csv.columns,
                  rows |-> SubSeq(patient_csv.rows, offset + 1, last)]
         base == merge_chunk(pch, report_csv, serious_csv, reporter_csv, join_type)
         ages == age_like_cols(base)
     IN /\ offset' = last
        /\ out_csv' = IF wrote_header
                      THEN [out_csv EXCEPT !.lines = @ \o csv_lines(base)]
                      ELSE [exists |-> TRUE, header |-> base.columns,
                            lines |-> csv_lines(base)]
        /\ wrote_header' = TRUE
        /\ merged_total' = merged_total + Len(base.rows)
        /\ age_null_total' =
             IF ages = <<>> THEN age_null_total
             ELSE age_null_total
                  + Cardinality({i \in DOMAIN base.rows : isna(base.rows[i][ages[1]])})
  /\ UNCHANGED <<pc, patient_csv, report_csv, serious_csv, reporter_csv,
                 join_type, chunksize, out_stats, except_merge>>

\* after the last chunk: the statistics file is written
MergeFinish ==
  /\ pc = "merge"
  /\ offset = Len(patient_csv.rows)
  /\ out_stats' = [exists |-> TRUE, merged_rows |-> merged_total,
                   patient_custom_master_age_null |-> age_null_total]
  /\ pc' = "merge_done"
  /\ UNCHANGED <<patient_csv, report_csv, serious_csv, reporter_csv, join_type,
                 chunksize, offset, out_csv, wrote_header, merged_total,
                 age_null_total, except_merge>>

----------------------------------------------------------------------------
(* stage4_merge_back.py *)

MP   == "medicinal_product"
PK   == "product_key"
REAC == "reaction_meddrapt"

\* to_str_sid: None for a missing value, else the stripped text without a
\* trailing ".0"
to_str_sid(x) ==
  IF isna(x) THEN None
  ELSE LET s == strip(x)
       IN IF endswith_dot0(s) THEN SubSeq(s, 1, Len(s) - 2) ELSE s

AllCols(df) == Range(df.columns)

\* load_rxnorm up to the sort: exact duplicate rows and rows without a
\* product key are gone
rx_candidates(rx_file) == dropna(drop_duplicates(rx_file, AllCols(rx_file)), {PK})

\* sort_values("product_key") is not a stable sort, so among the rows of one
\* product key any row may come first: the sets of row positions that
\* drop_duplicates("product_key") can keep
RxPicks(rx1) ==
  {S \in SUBSET DOMAIN rx1.rows :
     \A i \in DOMAIN rx1.rows :
       Cardinality({j \in S : rx1.rows[j][PK] = rx1.rows[i][PK]}) = 1}

\* load_rxnorm: one row (product_key, INN) per product key; kept are the
\* rows at the positions in S
load_rxnorm(rx_file, S) ==
  LET rx1 == rx_candidates(rx_file)
  IN project([rx1 EXCEPT !.rows = KeepRows(rx1.rows, LAMBDA i : i \in S)], <<PK, "INN">>)

\* a variant of the SOC join that keeps only the mentions with a SOC
soc_join_inner(mentions, soc_map) ==
  merge(mentions, soc_map, <<"pt_id">>, <<"pt_id">>, "inner")

\* join_adr, the second merge: how="left" on pt_id
soc_join(mentions, soc_map) ==
  merge(mentions, soc_map, <<"pt_id">>, <<"pt_id">>, "left")

\* load_meddra_joiner / join_adr: the reaction mentions inner-joined with
\* the PT map on the reaction text, then left-joined with the SOC map
join_adr(adr, pt, soc) ==
  LET pt_map  == rename(drop_duplicates(project(pt, <<REAC, "MedDRA_concept_id",
                                                      "MedDRA_concept_code">>),
                                        {REAC, "MedDRA_concept_id", "MedDRA_concept_code"}),
                        LAMBDA c : CASE c = "MedDRA_concept_id" -> "pt_id"
                                     [] c = "MedDRA_concept_code" -> "pt_code"
                                     [] OTHER -> c)
      soccols == <<"MedDRA_concept_id_1", "MedDRA_concept_id", "MedDRA_concept_code",
                   "MedDRA_concept_name">>
      soc_map == rename(drop_duplicates(project(soc, soccols), Range(soccols)),
                        LAMBDA c : CASE c = "MedDRA_concept_id_1" -> "pt_id"
                                     [] c = "MedDRA_concept_id" -> "soc_id"
                                     [] c = "MedDRA_concept_code" -> "soc_code"
                                     [] c = "MedDRA_concept_name" -> "soc_name"
                                     [] OTHER -> c)
  IN soc_join(merge(adr, pt_map, <<REAC>>, <<REAC>>, "inner"), soc_map)

keep_adr == <<KEY, REAC, "pt_id", "pt_code", "soc_id", "soc_code", "soc_name">>

\* main, lines 83-103: the drug mentions that carry an INN
s4_drug_mapped(dm_file, rx_file, S) ==
  LET drug_map == drop_duplicates(dropna(MapCol(dm_file, KEY, to_str_sid), {KEY, MP, PK}),
                                  {KEY, MP})
      rx       == dropna(load_rxnorm(rx_file, S), {"INN"})
      joined   == project(merge(drug_map, rx, <<PK>>, <<PK>>, "inner"), <<KEY, MP, "INN">>)
  IN drop_duplicates(joined, {KEY, MP, "INN"})

\* main, lines 143-155: the reaction mentions joined with MedDRA
s4_adr_mapped(am_file, pt, soc) ==
  LET adr_map == drop_duplicates(dropna(MapCol(am_file, KEY, to_str_sid), {KEY, REAC}),
                                 {KEY, REAC})
  IN drop_duplicates(project(join_adr(adr_map, pt, soc), keep_adr), Range(keep_adr))

\* a variant that does not drop the repeated pairs
s4_final_keep_pairs(base_file, dmapped, amapped) ==
  merge(MapCol(base_file, KEY, to_str_sid),
        merge(dmapped, amapped, <<KEY>>, <<KEY>>, "inner"), <<KEY>>, <<KEY>>, "inner")

\* main, lines 166-168: the pairs of one report and the final table
s4_final(base_file, dmapped, amapped) ==
  LET base  == MapCol(base_file, KEY, to_str_sid)
      pairs == drop_duplicates(merge(dmapped, amapped, <<KEY>>, <<KEY>>, "inner"),
                               {KEY, MP, REAC})
  IN merge(base, pairs, <<KEY>>, <<KEY>>, "inner")

\* main, lines 88-99: the drug mentions as read, one row for each report and
\* product name
s4_drug_map(dm_file) ==
  drop_duplicates(dropna(MapCol(dm_file, KEY, to_str_sid), {KEY, MP, PK}), {KEY, MP})

\* main, lines 143-148: the reaction mentions as read, one row for each
\* report and reaction text
s4_adr_map(am_file) ==
  drop_duplicates(dropna(MapCol(am_file, KEY, to_str_sid), {KEY, REAC}), {KEY, REAC})

\* groupby("safetyreportid").size(): the number of rows of key k
group_size(df, k) == Cardinality({i \in DOMAIN df.rows : df.rows[i][KEY] = k})

RECURSIVE sum_products(_, _, _)
sum_products(keys, drug_sid, adr_sid) ==
  IF keys = {} THEN 0
  ELSE LET k == CHOOSE x \in keys : TRUE
       IN group_size(drug_sid, k) * group_size(adr_sid, k)
            + sum_products(keys \ {k}, drug_sid, adr_sid)

\* pairs_count: the two size tables inner-joined on the key, and the sum of
\* the products n_drug * n_adr
pairs_count(drug_sid, adr_sid) ==
  sum_products({r[KEY] : r \in Range(drug_sid.rows)} \cap {r[KEY] : r \in Range(adr_sid.rows)},
               drug_sid, adr_sid)

\* df[["safetyreportid"]].drop_duplicates()
sid_only(df) == drop_duplicates(project(df, <<KEY>>), {KEY})

\* main, lines 157-163 and 175-177: the three estimates of the statistics
s4_stats(drug_map, adr_map, dmapped, amapped) ==
  [exists |-> TRUE,
   pairs_pre_enrich_est |-> pairs_count(sid_only(drug_map), sid_only(adr_map)),
   pairs_after_inn_est  |-> pairs_count(sid_only(dmapped), sid_only(adr_map)),
   pairs_after_pt_est   |-> pairs_count(sid_only(dmapped), sid_only(amapped))]

\* stage4_merge_back.main: the whole run, up to the files it writes
Stage4MergeBack ==
  /\ pc = "stage4"
  /\ ~final_df.exists
  /\ \E S \in RxPicks(rx_candidates(rxnorm_csv)) :
       LET dm == s4_drug_mapped(drug_map_csv, rxnorm_csv, S)
           am == s4_adr_mapped(adr_map_csv, std_pt_csv, std_soc_csv)
           fin == s4_final(baseline_csv, dm, am)
       IN /\ drug_mapped' = dm
          /\ adr_mapped' = am
          /\ final_df' = [exists |-> TRUE, header |-> fin.columns,
                          lines |-> csv_lines(fin),
                          final_rows_written |-> Len(fin.rows)]
          /\ stats' = s4_stats(s4_drug_map(drug_map_csv), s4_adr_map(adr_map_csv), dm, am)
  /\ UNCHANGED <<pc, except_stage4, baseline_csv, drug_map_csv, rxnorm_csv,
                 adr_map_csv, std_pt_csv, std_soc_csv, fb_drug, fb_adr, fb_final>>

----------------------------------------------------------------------------
(* core/openFDA_Entity_Relationship_Tables_v2.py:                          *)
(* step_standard_drugs_rxnorm_ingredients.  Concept ids are digit text;    *)
(* the concept name is left out: it travels with the concept code.         *)

Ingredient == <<"Ingredient">>

\* df.query(...) / df[mask]
query(df, P(_)) == [df EXCEPT !.rows = SelectSeq(@, P)]

\* column RxNorm_concept_<what>_<k>
RX(what, k) == "RxNorm_concept_" \o what \o "_" \o IdxStr[k]

\* c.rename(columns={concept_id: RxNorm_concept_id_k, ...})
c_as(c, k) ==
  rename(c, LAMBDA col : CASE col = "concept_id" -> RX("id", k)
                           [] col = "concept_code" -> RX("code", k)
                           [] col = "concept_class_id" -> RX("class_id", k)
                           [] OTHER -> col)

\* lines 533-535: the relationship table without repeated edges
ing_r(rel) ==
  drop_duplicates(project(rel, <<"concept_id_1", "concept_id_2", "relationship_id">>),
                  {"concept_id_1", "concept_id_2", "relationship_id"})

\* lines 537-544: the standard RxNorm concepts
ing_c(con) ==
  drop_duplicates_rows(
    project(query(con, LAMBDA x : x["vocabulary_id"] = <<"RxNorm">>
                                  /\ x["standard_concept"] = <<"S">>),
            <<"concept_id", "concept_code", "concept_class_id">>))

\* one hop table (fs, st, tf, ff, fsx): the edges that leave the concepts
\* ids, with the concept at level a and the concept at level b attached,
\* self-loops and repeated rows removed
hop(r, c, ids, a, b) ==
  drop_duplicates_rows(
    query(rename(merge(merge(query(r, LAMBDA x : x["concept_id_1"] \in ids),
                             c_as(c, a), <<"concept_id_1">>, <<RX("id", a)>>, "inner"),
                       c_as(c, b), <<"concept_id_2">>, <<RX("id", b)>>, "inner"),
                 LAMBDA col : IF col = "relationship_id"
                              THEN "relationship_id_" \o IdxStr[a] \o IdxStr[b]
                              ELSE col),
          LAMBDA x : x[RX("id", a)] # x[RX("id", b)]))

\* lines 546-713
ing_fs(r, c, start) == hop(r, c, start, 1, 2)
ing_st(r, c, fs) == hop(r, c, unique(fs, RX("id", 2)), 2, 3)
ing_tf(r, c, st) == hop(r, c, unique(st, RX("id", 3)), 3, 4)
ing_ff(r, c, tf) == hop(r, c, unique(tf, RX("id", 4)), 4, 5)
ing_fsx(r, c, ff) == hop(r, c, unique(ff, RX("id", 5)), 5, 6)

on_level(k) == <<RX("id", k), RX("code", k), RX("class_id", k)>>

\* lines 716-744: the paths 1-2-3 that end in an Ingredient, level 3
\* renamed to level 2
rx123_to_add(fs, st) ==
  drop_duplicates_rows(
    rename(project(drop_duplicates_rows(
                     query(merge(fs, st, on_level(2), on_level(2), "inner"),
                           LAMBDA x : x[RX("class_id", 3)] = Ingredient
                                      /\ x[RX("class_id", 1)] # x[RX("class_id", 3)])),
                   on_level(1) \o on_level(3)),
           LAMBDA col : CASE col = RX("id", 3) -> RX("id", 2)
                          [] col = RX("code", 3) -> RX("code", 2)
                          [] col = RX("class_id", 3) -> RX("class_id", 2)
                          [] OTHER -> col))

\* lines 746-760: the paths 1-2-3-4 that end in an Ingredient, all columns
\* kept
rx1234(fs, st, tf) ==
  drop_duplicates_rows(
    query(merge(query(merge(fs, st, on_level(2), on_level(2), "inner"),
                      LAMBDA x : x[RX("class_id", 3)] # Ingredient
                                 /\ x[RX("class_id", 1)] # x[RX("class_id", 3)]),
                tf, on_level(3), on_level(3), "inner"),
          LAMBDA x : x[RX("class_id", 4)] = Ingredient))

\* line 762: rx_all = concat([rx123_to_add, rx1234]).drop_duplicates()
rx_union(fs, st, tf) ==
  drop_duplicates_rows(concat(rx123_to_add(fs, st), rx1234(fs, st, tf)))

\* lines 546-762 in sequence: every hop table is built from the one before
rx_from_st(r, c, fs, st) == rx_union(fs, st, ing_tf(r, c, st))
rx_from_fs(r, c, fs) == rx_from_st(r, c, fs, ing_st(r, c, fs))
rx_all(r, c, start) == rx_from_fs(r, c, ing_fs(r, c, start))

\* lines 765-786: the ingredient rows of every (start concept, report)
ing_std_ing(std, all) ==
  drop_duplicates_rows(
    drop(dropna(merge(drop_duplicates(project(std, <<"RxNorm_concept_id", KEY>>),
                                      {"RxNorm_concept_id", KEY}),
                      rename(all, LAMBDA col :
                        CASE col = RX("id", 1) -> "RxNorm_concept_id"
                          [] col = RX("id", 2) -> "RxNorm_concept_id_ing"
                          [] col = RX("code", 2) -> "RxNorm_concept_code"
                          [] col = RX("class_id", 2) -> "RxNorm_concept_class_id"
                          [] OTHER -> col),
                      <<"RxNorm_concept_id">>, <<"RxNorm_concept_id">>, "left"),
                {"RxNorm_concept_id_ing"}),
         "RxNorm_concept_id_ing"))

\* the file written by to_csv: sort_cols only reorders the columns, so the
\* file is kept as its column set and its rows
ing_written(df) == [exists |-> TRUE, columns |-> Range(df.columns), rows |-> df.rows]

\* step_standard_drugs_rxnorm_ingredients: the whole step.  sort_cols only
\* reorders the columns of the file, so the file is kept as its column set
\* and its rows.
StepIngredients ==
  /\ pc = "ingredients"
  /\ ~std_ing.exists
  /\ std_ing' = ing_written(ing_std_ing(standard_drugs,
                                        rx_all(ing_r(concept_relationship), ing_c(concept),
                                               rx_ids)))
  /\ UNCHANGED <<pc, except_ing, concept, concept_relationship, rx_ids,
                 standard_drugs>>

----------------------------------------------------------------------------
(* Inputs of the merge *)
RawSids == {<<"1">>, <<"1", ".", "0">>, <<"2">>}

\* the patient rows tried: key as written in the file, age text
PatientRows ==
  { (KEY :> <<"1">>) @@ ("patient_custom_master_age" :> <<"5">>),
    (KEY :> <<"1", ".", "0">>) @@ ("patient_custom_master_age" :> NaN),
    (KEY :> <<"2">>) @@ ("patient_custom_master_age" :> <<"7">>),
    (KEY :> NaN) @@ ("patient_custom_master_age" :> <<"x">>) }

\* an ER table as read with dtype=str: the key as written in the file and
\* one data column that tells the rows apart
er_table(col, sids) ==
  [columns |-> <<KEY, col>>,
   rows |-> [i \in DOMAIN sids |-> (KEY :> sids[i]) @@ (col :> <<col, IdxStr[i]>>)] \o <<>>]

patient_table(rows) ==
  [columns |-> <<"patient_custom_master_age", KEY>>, rows |-> rows]

\* the scraper is not run
ScraperIdle ==
  /\ unique_ingredients = <<>> /\ cache_file = {} /\ progress_file = 0
  /\ scr_cache = {} /\ scr_batches = <<>> /\ scr_batch = 0 /\ scr_item = 0
  /\ scr_pc = "idle" /\ scr_runs = 0 /\ scr_last = "none"

\* no rate limiter has been made
LimiterIdle ==
  /\ min_interval = 0 /\ rl_next = 0 /\ clock = 0
  /\ th_pc = <<>> /\ th_now = <<>> /\ th_wake = <<>> /\ th_max = <<>> /\ th_calls = <<>>
  /\ released = <<>>

\* the chunk loop is not followed statement by statement
LoopIdle ==
  /\ loop_step = "idle" /\ loop_ids = {}
  /\ loop_rep = NoFrame /\ loop_ser = NoFrame /\ loop_rtr = NoFrame /\ loop_base = NoFrame

\* no normalizer has been given a value
KeysIdle == sid_raw = <<>> /\ sid_keys = <<>>

MergeIdle ==
  /\ patient_csv = NoFrame /\ report_csv = NoFrame
  /\ serious_csv = NoFrame /\ reporter_csv = NoFrame
  /\ join_type = "inner" /\ chunksize = 1 /\ offset = 0
  /\ out_csv = [exists |-> FALSE, header |-> <<>>, lines |-> <<>>]
  /\ wrote_header = FALSE /\ merged_total = 0 /\ age_null_total = 0
  /\ out_stats = [exists |-> FALSE, merged_rows |-> 0,
                  patient_custom_master_age_null |-> 0]

----------------------------------------------------------------------------
(* run_pipeline.fallback_stage7_and_stage8 *)

\* what csv.DictReader yields for a field: the text, empty for an empty field
cell(v) == IF isna(v) THEN <<>> ELSE v

\* Python truth of a text value or None
truthy(v) == ~isna(v) /\ v # <<>>

\* what csv.writer writes for a value: None and "" are the empty field
field(v) == IF truthy(v) THEN v ELSE NaN

\* the first row that satisfies P
FirstRow(rows, P(_)) ==
  rows[CHOOSE i \in DOMAIN rows : P(rows[i]) /\ \A j \in 1..(i - 1) : ~P(rows[j])]

\* rx_map: product_key -> INN, the first row of a key wins
fb_rx_map(rx_file) ==
  [k \in {cell(r[PK]) : r \in {x \in Range(rx_file.rows) : truthy(cell(x[PK]))}} |->
     cell(FirstRow(rx_file.rows, LAMBDA r : cell(r[PK]) = k)["INN"])] @@ <<>>

\* pt_map: reaction text -> (pt_id, pt_code), rows without a PT id are
\* skipped, the first remaining row of a text wins
fb_pt_map(pt) ==
  LET ok(r) == truthy(cell(r[REAC])) /\ truthy(cell(r["MedDRA_concept_id"]))
  IN [t \in {cell(r[REAC]) : r \in {x \in Range(pt.rows) : ok(x)}} |->
        LET r == FirstRow(pt.rows, LAMBDA x : ok(x) /\ cell(x[REAC]) = t)
        IN <<cell(r["MedDRA_concept_id"]), cell(r["MedDRA_concept_code"])>>] @@ <<>>

\* soc_map: pt_id -> (soc_id, soc_code, soc_name), first row wins
fb_soc_map(soc) ==
  LET ok(r) == truthy(cell(r["MedDRA_concept_id_1"])) /\ truthy(cell(r["MedDRA_concept_id"]))
  IN [p \in {cell(r["MedDRA_concept_id_1"]) : r \in {x \in Range(soc.rows) : ok(x)}} |->
        LET r == FirstRow(soc.rows, LAMBDA x : ok(x) /\ cell(x["MedDRA_concept_id_1"]) = p)
        IN <<cell(r["MedDRA_concept_id"]), cell(r["MedDRA_concept_code"]),
             cell(r["MedDRA_concept_name"])>>] @@ <<>>

\* the rows inserted into table drug: every drug_map row with a key, a
\* product name and an INN
fb_ingest_drug(dm_file, rx_map) ==
  LET row(r) == [sid |-> strip(cell(r[KEY])), medicinal_product |-> cell(r[MP]),
                 inn |-> IF cell(r[PK]) \in DOMAIN rx_map THEN rx_map[cell(r[PK])] ELSE None]
  IN SelectSeq([i \in DOMAIN dm_file.rows |-> row(dm_file.rows[i])] \o <<>>,
               LAMBDA t : truthy(t.sid) /\ truthy(t.medicinal_product) /\ truthy(t.inn))

\* the rows inserted into table adr: every adr_map row with a key and a
\* reaction text that has a PT
fb_ingest_adr(am_file, pt_map, soc_map) ==
  LET ok(r) == truthy(strip(cell(r[KEY]))) /\ truthy(cell(r[REAC]))
               /\ cell(r[REAC]) \in DOMAIN pt_map
      row(r) == LET pt  == pt_map[cell(r[REAC])]
                    soc == IF pt[1] \in DOMAIN soc_map THEN soc_map[pt[1]]
                           ELSE <<None, None, None>>
                IN [sid |-> strip(cell(r[KEY])), reaction_meddrapt |-> cell(r[REAC]),
                    pt_id |-> pt[1], pt_code |-> pt[2], soc_id |-> soc[1],
                    soc_code |-> soc[2], soc_name |-> soc[3]]
      kept == SelectSeq(am_file.rows, ok)
  IN [i \in DOMAIN kept |-> row(kept[i])] \o <<>>

add_cols == <<MP, "INN", REAC, "pt_id", "pt_code", "soc_id", "soc_code", "soc_name">>

\* the lines written for one baseline row: nothing without a key, a drug
\* row or a reaction row, else one line per (drug row, reaction row)
fb_lines_of(header, row, drug, adr) ==
  LET sid  == strip(cell(row[KEY]))
      meds == SelectSeq(drug, LAMBDA d : d.sid = sid)
      adrs == SelectSeq(adr, LAMBDA a : a.sid = sid)
      base_vals == [j \in DOMAIN header |-> field(cell(row[header[j]]))] \o <<>>
      line(m, a) == base_vals \o <<field(m.medicinal_product), field(m.inn),
                                   field(a.reaction_meddrapt), field(a.pt_id),
                                   field(a.pt_code), field(a.soc_id), field(a.soc_code),
                                   field(a.soc_name)>>
  IN IF ~truthy(sid) \/ meds = <<>> \/ adrs = <<>> THEN <<>>
     ELSE Concat([i \in DOMAIN meds |->
                    [j \in DOMAIN adrs |-> line(meds[i], adrs[j])] \o <<>>] \o <<>>)

\* fallback_stage7_and_stage8, the merge of Stage 7: the whole run, up to
\* the final table it writes
FallbackStage7 ==
  /\ pc = "stage4"
  /\ ~fb_final.exists
  /\ LET drug == fb_ingest_drug(drug_map_csv, fb_rx_map(rxnorm_csv))
         adr  == fb_ingest_adr(adr_map_csv, fb_pt_map(std_pt_csv), fb_soc_map(std_soc_csv))
         lines == Concat([i \in DOMAIN baseline_csv.rows |->
                            fb_lines_of(baseline_csv.columns, baseline_csv.rows[i],
                                        drug, adr)] \o <<>>)
     IN /\ fb_drug' = drug
        /\ fb_adr' = adr
        /\ fb_final' = [exists |-> TRUE, header |-> baseline_csv.columns \o add_cols,
                        lines |-> lines, final_rows_written |-> Len(lines)]
  /\ UNCHANGED <<pc, except_stage4, baseline_csv, drug_map_csv, rxnorm_csv,
                 adr_map_csv, std_pt_csv, std_soc_csv, drug_mapped, adr_mapped, final_df,
                 stats>>

----------------------------------------------------------------------------
(* Inputs of Stage 4 / Stage 7 *)
BaseSids == {<<"1">>, <<"1", ".", "0">>, <<"2">>}

\* the baseline: the key as written in the file and one column that tells
\* the rows apart
baseline_table(sids) ==
  [columns |-> <<KEY, "report_row">>,
   rows |-> [i \in DOMAIN sids |-> (KEY :> sids[i]) @@ ("report_row" :> <<IdxStr[i]>>)] \o <<>>]

dm_row(sid, mp, pk) == (KEY :> sid) @@ (MP :> mp) @@ (PK :> pk)
am_row(sid, reac)   == (KEY :> sid) @@ (REAC :> reac)
rx_row(pk, inn)     == (PK :> pk) @@ ("INN" :> inn)
pt_row(reac, id)    == (REAC :> reac) @@ ("MedDRA_concept_id" :> id)
                       @@ ("MedDRA_concept_code" :> IF isna(id) THEN NaN ELSE <<"c">> \o id)
                       @@ ("MedDRA_concept_name" :> IF isna(id) THEN NaN ELSE <<"n">> \o id)
soc_row(pt, soc)    == ("MedDRA_concept_id_1" :> pt) @@ ("MedDRA_concept_code_1" :> <<"c">> \o pt)
                       @@ ("MedDRA_concept_id" :> soc) @@ ("MedDRA_concept_code" :> <<"c">> \o soc)
                       @@ ("MedDRA_concept_name" :> <<"n">> \o soc)

\* drug mentions of split_drug.py (product_key is the slug of the name) and
\* reaction mentions of split_adr.py; both files may repeat a mention
DrugRows == {dm_row(<<"1">>, <<"A">>, <<"a">>), dm_row(<<"1">>, <<"B">>, <<"b">>),
             dm_row(<<"2">>, <<"A">>, <<"a">>)}
AdrRows  == {am_row(<<"1">>, <<"H">>), am_row(<<"1">>, <<"N">>), am_row(<<"2">>, <<"H">>)}

rx_table(rows)  == [columns |-> <<PK, "INN">>, rows |-> rows]
pt_table(rows)  == [columns |-> <<REAC, "MedDRA_concept_id", "MedDRA_concept_code",
                                  "MedDRA_concept_name">>, rows |-> rows]
soc_table(rows) == [columns |-> <<"MedDRA_concept_id_1", "MedDRA_concept_code_1",
                                  "MedDRA_concept_id", "MedDRA_concept_code",
                                  "MedDRA_concept_name">>, rows |-> rows]

P10 == <<"1", "0">>
P11 == <<"1", "1">>
S13 == <<"1", "3">>
S14 == <<"1", "4">>

\* the enrichment outputs tried: [rx, pt, soc]
VocabCases ==
  { \* every product and every reaction text resolved
    [rx  |-> <<rx_row(<<"a">>, <<"x">>), rx_row(<<"b">>, <<"y">>)>>,
     pt  |-> <<pt_row(<<"H">>, P10), pt_row(<<"N">>, P11)>>,
     soc |-> <<soc_row(P10, S13), soc_row(P11, S14)>>],
    \* a product key listed twice with different INN; a reaction text that
    \* matched no PT (ADR.py lists it with empty concept fields)
    [rx  |-> <<rx_row(<<"a">>, <<"x">>), rx_row(<<"a">>, <<"y">>), rx_row(<<"b">>, <<"y">>)>>,
     pt  |-> <<pt_row(<<"H">>, P10), pt_row(<<"N">>, NaN)>>,
     soc |-> <<soc_row(P10, S13)>>],
    \* a product key without INN; a reaction text absent from the PT table;
    \* a PT without SOC
    [rx  |-> <<rx_row(<<"a">>, <<"x">>), rx_row(<<"b">>, NaN)>>,
     pt  |-> <<pt_row(<<"H">>, P10)>>,
     soc |-> <<>>],
    \* a product key absent from the RxNorm table; a reaction text with two
    \* PT concepts
    [rx  |-> <<rx_row(<<"a">>, <<"x">>), rx_row(<<"a">>, <<"x">>)>>,
     pt  |-> <<pt_row(<<"H">>, P10), pt_row(<<"H">>, P11), pt_row(<<"N">>, P11)>>,
     soc |-> <<soc_row(P10, S13), soc_row(P11, S13)>>],
    \* every product resolved; one PT with a SOC and one PT without
    [rx  |-> <<rx_row(<<"a">>, <<"x">>), rx_row(<<"b">>, <<"y">>)>>,
     pt  |-> <<pt_row(<<"H">>, P10), pt_row(<<"N">>, P11)>>,
     soc |-> <<soc_row(P10, S13)>>] }

NoFinal == [exists |-> FALSE, header |-> <<>>, lines |-> <<>>, final_rows_written |-> 0]

NoStats == [exists |-> FALSE, pairs_pre_enrich_est |-> 0, pairs_after_inn_est |-> 0,
            pairs_after_pt_est |-> 0]

Stage4Idle ==
  /\ baseline_csv = NoFrame /\ drug_map_csv = NoFrame /\ rxnorm_csv = NoFrame
  /\ adr_map_csv = NoFrame /\ std_pt_csv = NoFrame /\ std_soc_csv = NoFrame
  /\ drug_mapped = NoFrame /\ adr_mapped = NoFrame /\ final_df = NoFinal
  /\ stats = NoStats
  /\ fb_drug = <<>> /\ fb_adr = <<>> /\ fb_final = NoFinal

----------------------------------------------------------------------------
(* Inputs of the ingredient step *)
IdText(n) == <<IdxStr[n]>>

ClinicalDrug == <<"Clinical Drug">>
BrandName    == <<"Brand Name">>

\* a row of CONCEPT.csv
con_row(n, class, voc, std) ==
  ("concept_id" :> IdText(n)) @@ ("concept_code" :> <<"c">> \o IdText(n))
  @@ ("concept_class_id" :> class) @@ ("vocabulary_id" :> voc) @@ ("standard_concept" :> std)

concept_table(rows) ==
  [columns |-> <<"concept_id", "concept_code", "concept_class_id", "vocabulary_id",
                 "standard_concept">>, rows |-> rows \o <<>>]

\* a row of CONCEPT_RELATIONSHIP.csv
rel_row(a, b, kind) ==
  ("concept_id_1" :> IdText(a)) @@ ("concept_id_2" :> IdText(b)) @@ ("relationship_id" :> kind)

relationship_table(rows) ==
  [columns |-> <<"concept_id_1", "concept_id_2", "relationship_id">>, rows |-> rows \o <<>>]

std_row(n, report) == ("RxNorm_concept_id" :> IdText(n)) @@ (KEY :> report)

standard_drugs_table(rows) == [columns |-> <<"RxNorm_concept_id", KEY>>, rows |-> rows]

\* the kinds of concept tried: three standard RxNorm classes and, for the
\* last concept, an Ingredient that is not a standard concept
StdKinds ==
  { [class |-> Ingredient, std |-> <<"S">>], [class |-> ClinicalDrug, std |-> <<"S">>],
    [class |-> BrandName, std |-> <<"S">>] }
ConceptKinds(n) ==
  IF n = NumConcepts THEN StdKinds \cup {[class |-> Ingredient, std |-> NaN]} ELSE StdKinds

\* the edges of a set, in a fixed order
RECURSIVE EdgeSeq(_)
EdgeSeq(E) ==
  IF E = {} THEN <<>>
  ELSE LET e == CHOOSE x \in E : \A y \in E : x[1] * 10 + x[2] <= y[1] * 10 + y[2]
       IN <<rel_row(e[1], e[2], <<"k1">>)>> \o EdgeSeq(E \ {e})

\* the relationship tables made of the edges E: as they are, with the first
\* edge repeated, or with the first edge repeated under another
\* relationship_id
RelTables(E) ==
  LET rows == EdgeSeq(E)
  IN IF rows = <<>> THEN {relationship_table(rows)}
     ELSE {relationship_table(rows), relationship_table(rows \o <<rows[1]>>),
           relationship_table(rows \o <<[rows[1] EXCEPT !["relationship_id"] = <<"k2">>]>>)}

IngNotRun == [exists |-> FALSE, columns |-> {}, rows |-> <<>>]

IngIdle ==
  /\ concept = NoFrame /\ concept_relationship = NoFrame /\ rx_ids = {}
  /\ standard_drugs = NoFrame /\ std_ing = IngNotRun

\* a general graph over NumConcepts concepts with at most MaxEdges distinct
\* edges (self-loops included); the start concepts are 1 and 2
IngGraphInit ==
  /\ \E k \in {f \in [1..NumConcepts -> StdKinds \cup {[class |-> Ingredient, std |-> NaN]}] :
                  \A n \in 1..NumConcepts : f[n] \in ConceptKinds(n)} :
       concept = concept_table([n \in 1..NumConcepts |->
                                  con_row(n, k[n].class, <<"RxNorm">>, k[n].std)])
  /\ \E E \in SUBSET ((1..NumConcepts) \X (1..NumConcepts)) :
       /\ Cardinality(E) <= MaxEdges
       /\ concept_relationship \in RelTables(E)
  /\ rx_ids = {IdText(1), IdText(2)}
  /\ standard_drugs = standard_drugs_table(<<std_row(1, <<"r1">>), std_row(2, <<"r2">>)>>)

\* a chain 1 -> 2 -> ... -> k+1 of k <= MaxHops edges whose last concept is
\* an Ingredient and whose other concepts are not; the start concept is 1
IngChainInit ==
  \E k \in 1..MaxHops : \E cl \in [1..k -> {ClinicalDrug, BrandName}] :
    /\ concept = concept_table([n \in 1..(k + 1) |->
                   con_row(n, IF n = k + 1 THEN Ingredient ELSE cl[n], <<"RxNorm">>, <<"S">>)])
    /\ concept_relationship = relationship_table([n \in 1..k |-> rel_row(n, n + 1, <<"k1">>)])
    /\ rx_ids = {IdText(1)}
    /\ standard_drugs = standard_drugs_table(<<std_row(1, <<"r1">>)>>)

----------------------------------------------------------------------------
(* core/openFDA_Entity_Relationship_Tables_v2.py:                          *)
(* step_standard_reactions_meddra_relationships                            *)
PT   == <<"PT">>
HLT  == <<"HLT">>
HLGT == <<"HLGT">>
SOC  == <<"SOC">>

\* Series.astype(int) on digit text: the decimal numeral without leading
\* zeros
RECURSIVE astype_int(_)
astype_int(v) == IF Len(v) > 1 /\ Head(v) = "0" THEN astype_int(Tail(v)) ELSE v

\* column MedDRA_concept_<what>_<k>
M(what, k) == "MedDRA_concept_" \o what \o "_" \o IdxStr[k]

\* lines 795-796
hier_med(con) ==
  MapCol(query(con, LAMBDA x : x["vocabulary_id"] = <<"MedDRA">>), "concept_id", astype_int)

\* lines 798-800
hier_r(rel) ==
  MapCol(MapCol(ing_r(rel), "concept_id_1", astype_int), "concept_id_2", astype_int)

\* med.loc[:, [...]].rename(columns=...) for level k
med_as(med, k) ==
  rename(project(med, <<"concept_id", "concept_code", "concept_class_id">>),
         LAMBDA col : CASE col = "concept_id" -> M("id", k)
                        [] col = "concept_code" -> M("code", k)
                        [] col = "concept_class_id" -> M("class_id", k)
                        [] OTHER -> col)

\* lines 802-829: the edges between MedDRA concepts, both ends attached
all_meddra(r, med) ==
  drop(drop(merge(merge(r, med_as(med, 1), <<"concept_id_1">>, <<M("id", 1)>>, "inner"),
                  med_as(med, 2), <<"concept_id_2">>, <<M("id", 2)>>, "inner"),
            "concept_id_1"),
       "concept_id_2")

\* lines 832-833: PT -> HLT
first_rel(am) ==
  query(am, LAMBDA x : x[M("class_id", 2)] = HLT /\ x[M("id", 1)] # x[M("id", 2)])

\* the renaming of lines 843-855 and 870-882: level 1 becomes level a and
\* level 2 becomes level a + 1
relevel(df, a) ==
  rename(df, LAMBDA col :
    CASE col = M("id", 1) -> M("id", a)
      [] col = M("code", 1) -> M("code", a)
      [] col = M("class_id", 1) -> M("class_id", a)
      [] col = M("id", 2) -> M("id", a + 1)
      [] col = M("code", 2) -> M("code", a + 1)
      [] col = M("class_id", 2) -> M("class_id", a + 1)
      [] col = "relationship_id" -> "relationship_id_" \o IdxStr[a] \o IdxStr[a + 1]
      [] OTHER -> col)

\* lines 836-859 (a = 2) and 863-886 (a = 3): the edges that leave the
\* concepts at level a of the table before, ending in a concept of the class
next_rel(am, prev, a, class) ==
  query(relevel(merge(am,
                      rename(drop_duplicates_rows(project(prev, <<M("id", a)>>)),
                             LAMBDA col : M("id", 1)),
                      <<M("id", 1)>>, <<M("id", 1)>>, "inner"),
                a),
        LAMBDA x : x[M("class_id", a + 1)] = class /\ x[M("id", a)] # x[M("id", a + 1)])

second_rel(am, first) == next_rel(am, first, 2, HLGT)
third_rel(am, second) == next_rel(am, second, 3, SOC)

\* lines 889-890
std_rx_pt(reactions) ==
  MapCol(drop_duplicates_rows(project(reactions, <<KEY, "MedDRA_concept_id">>)),
         "MedDRA_concept_id", astype_int)

\* lines 892-935, pt_to_hlt (a = 1), pt_to_hlgt (a = 2) and pt_to_soc
\* (a = 3) before their last rename: the reactions joined with the table
\* rel on the concept at level a of rel
pt_to(pt, rel, a) ==
  drop_duplicates_rows(
    merge(pt, rename(rel, LAMBDA col : IF col = M("id", a) THEN "MedDRA_concept_id" ELSE col),
          <<"MedDRA_concept_id">>, <<"MedDRA_concept_id">>, "inner"))

\* the column labels after the last rename: level a + 1 loses its level
pt_to_labels(cols, a) ==
  [i \in DOMAIN cols |->
     CASE cols[i] = M("id", a + 1) -> "MedDRA_concept_id"
       [] cols[i] = M("code", a + 1) -> "MedDRA_concept_code"
       [] cols[i] = M("class_id", a + 1) -> "MedDRA_concept_class_id"
       [] OTHER -> cols[i]] \o <<>>

\* lines 151-153, sort_cols: DataFrame.reindex(sorted(columns), axis=1)
\* raises ValueError when a column label occurs twice
sort_cols_raises(labels) == Cardinality(Range(labels)) # Len(labels)

\* the frame with its labels, and whether sort_cols and write_csv_gz got it
\* into its file
pt_to_file(df, a, written_before) ==
  [labels |-> pt_to_labels(df.columns, a), columns |-> df.columns, rows |-> df.rows,
   written |-> written_before /\ ~sort_cols_raises(pt_to_labels(df.columns, a))]

\* lines 937-943
hier_med_rel(pt, first, second, third) ==
  drop_duplicates_rows(
    merge(merge(merge(pt, first, <<"MedDRA_concept_id">>, <<M("id", 1)>>, "left"),
                second, <<M("id", 2)>>, <<M("id", 2)>>, "left"),
          third, <<M("id", 3)>>, <<M("id", 3)>>, "left"))

\* the outputs of the step, the hop tables given
hier_outputs(pt, first, second, third) ==
  [med_rel |-> ing_written(hier_med_rel(pt, first, second, third)),
   hlt  |-> pt_to_file(pt_to(pt, first, 1), 1, TRUE),
   hlgt |-> pt_to_file(pt_to(pt, second, 2), 2,
                       ~sort_cols_raises(pt_to_labels(pt_to(pt, first, 1).columns, 1))),
   soc  |-> pt_to_file(pt_to(pt, third, 3), 3,
                       /\ ~sort_cols_raises(pt_to_labels(pt_to(pt, first, 1).columns, 1))
                       /\ ~sort_cols_raises(pt_to_labels(pt_to(pt, second, 2).columns, 2)))]

hier_from_second(pt, am, first, second) ==
  hier_outputs(pt, first, second, third_rel(am, second))
hier_from_first(pt, am, first) == hier_from_second(pt, am, first, second_rel(am, first))
hier_from_all(pt, am) == hier_from_first(pt, am, first_rel(am))

HierNotRun == [labels |-> <<>>, columns |-> <<>>, rows |-> <<>>, written |-> FALSE]

hier_assign(out) ==
  /\ med_rel' = out.med_rel
  /\ pt_to_hlt' = out.hlt
  /\ pt_to_hlgt' = out.hlgt
  /\ pt_to_soc' = out.soc

\* step_standard_reactions_meddra_relationships: the whole step.  The
\* tables are computed in memory (columns, rows) and then written one after
\* the other; a table after a failed sort_cols is not written.
StepMeddraRelationships ==
  /\ pc = "hierarchy"
  /\ ~med_rel.exists
  /\ hier_assign(hier_from_all(std_rx_pt(std_rx),
                               all_meddra(hier_r(concept_relationship), hier_med(concept))))
  /\ UNCHANGED <<pc, except_hier, concept, concept_relationship, std_rx>>

----------------------------------------------------------------------------
(* Inputs of the hierarchy step *)
P12 == <<"1", "2">>

med_row(id, class) ==
  ("concept_id" :> id) @@ ("concept_code" :> <<"c">> \o id)
  @@ ("concept_class_id" :> class) @@ ("vocabulary_id" :> <<"MedDRA">>)
  @@ ("standard_concept" :> <<"S">>)

id_row(a, b) == ("concept_id_1" :> a) @@ ("concept_id_2" :> b) @@ ("relationship_id" :> <<"k1">>)

sr_row(report, id) == (KEY :> report) @@ ("MedDRA_concept_id" :> id)

\* the edges tried: the chain 10 -> 11 -> 12 -> 13, shortcuts, a self-loop
\* and an edge back to 10
HierEdges == <<id_row(P10, P11), id_row(P11, P12), id_row(P12, S13), id_row(P10, P12),
               id_row(P10, S13), id_row(P11, S13), id_row(P10, P10), id_row(P12, P10)>>

\* the classes tried for the concepts 10, 11, 12, 13
HierClasses ==
  {<<PT, a, b, c>> : a \in {HLT, PT}, b \in {HLGT, HLT}, c \in {SOC, HLGT}}

\* the reactions tried: standard_reactions holds PT concepts only
HierReactions(cl) ==
  {<<sr_row(<<"r1">>, P10)>>, <<sr_row(<<"r1">>, P10), sr_row(<<"r1">>, P10)>>}
  \cup (IF cl[2] = PT THEN {<<sr_row(<<"r1">>, P10), sr_row(<<"r2">>, P11)>>} ELSE {})

\* load_vocab has not been called
VocabIdle ==
  /\ vocab_files = <<>> /\ concept_loaded = NoFrame /\ relationship_loaded = NoFrame
  /\ std_drugs_file = NoFrame /\ rxnorm_ids = {} /\ vocab_error = ""

\* run_pipeline has not been started
PipeIdle ==
  /\ files = <<>> /\ pipe_log = {} /\ skipped = {} /\ verified = {} /\ runs = 0
  /\ force = FALSE

\* no split stage has started; no index file and no output is there
NoIndex == [exists |-> FALSE, sids |-> {}, fresh |-> FALSE]
NoSplitFile == [exists |-> FALSE, header |-> <<>>, lines |-> <<>>, fresh |-> FALSE]

SplitIdle ==
  /\ split_stage = "adr" /\ split_base = [given |-> FALSE, rows |-> <<>>]
  /\ split_in = NoFrame /\ sid_db = NoIndex /\ split_pos = 0
  /\ split_map = NoSplitFile /\ split_dict = NoSplitFile
  /\ dict_map = <<>> /\ index_log = <<>>

\* no shard is read and no ER table is written
ErNotWritten == [exists |-> FALSE, frame |-> NoFrame]

ReportNotRun ==
  [report |-> ErNotWritten, serious |-> ErNotWritten, reporter |-> ErNotWritten,
   raised |-> FALSE, ended |-> FALSE]

ErIdle ==
  /\ shards = <<>> /\ done = {} /\ parts = <<>>
  /\ patient_out = ErNotWritten /\ er_report_out = ReportNotRun

\* enrich/ADR.py has not run and none of its files is there
AdrNotRun == [exists |-> FALSE, frame |-> NoFrame]

AdrIdle ==
  /\ adr_dict = NoFrame /\ concept_ancestor = NoFrame
  /\ adr_std_pt = AdrNotRun /\ adr_std_soc = AdrNotRun

HierIdle ==
  /\ std_rx = NoFrame /\ med_rel = IngNotRun
  /\ pt_to_hlt = HierNotRun /\ pt_to_hlgt = HierNotRun /\ pt_to_soc = HierNotRun

HierInit ==
  /\ pc = "hierarchy"
  /\ MergeIdle /\ Stage4Idle /\ AdrIdle /\ ErIdle /\ SplitIdle /\ PipeIdle /\ VocabIdle
  /\ KeysIdle
  /\ LoopIdle
  /\ LimiterIdle
  /\ ScraperIdle
  /\ rx_ids = {} /\ standard_drugs = NoFrame /\ std_ing = IngNotRun
  /\ \E cl \in HierClasses :
       /\ concept = concept_table(<<med_row(P10, cl[1]), med_row(P11, cl[2]),
                                    med_row(P12, cl[3]), med_row(S13, cl[4])>>)
       /\ \E rows \in HierReactions(cl) :
            std_rx = [columns |-> <<KEY, "MedDRA_concept_id">>, rows |-> rows]
  /\ \E E \in SUBSET DOMAIN HierEdges :
       concept_relationship =
         relationship_table(SelectSeq(HierEdges, LAMBDA e : \E i \in E : HierEdges[i] = e))
  /\ med_rel = IngNotRun
  /\ pt_to_hlt = HierNotRun /\ pt_to_hlgt = HierNotRun /\ pt_to_soc = HierNotRun

HierNext == StepMeddraRelationships

SpecHierarchy == HierInit /\ [][HierNext]_vars

----------------------------------------------------------------------------
(* enrich/ADR.py: every table is read with dtype=str *)

\* str.casefold / str.upper on the letters the inputs use
casefold_char(ch) == CASE ch = "H" -> "h" [] ch = "N" -> "n" [] OTHER -> ch
upper_word(w) == CASE w = "MedDRA" -> "MEDDRA" [] w = "meddra" -> "MEDDRA"
                   [] w = "Pt" -> "PT" [] w = "soc" -> "SOC" [] OTHER -> w
str_upper(v) == IF isna(v) THEN NaN ELSE [i \in DOMAIN v |-> upper_word(v[i])] \o <<>>

\* " ".join(s.split()): no leading or trailing blank, one blank between
\* words
RECURSIVE join_split(_)
join_split(s) ==
  IF s = <<>> THEN <<>>
  ELSE IF Head(s) = " " THEN join_split(Tail(s))
  ELSE IF Len(s) >= 2 /\ s[2] = " "
       THEN IF join_split(Tail(s)) = <<>> THEN <<Head(s)>>
            ELSE <<Head(s), " ">> \o join_split(Tail(s))
       ELSE <<Head(s)>> \o join_split(Tail(s))

\* norm_key, lines 68-71
norm_key(s) ==
  IF isna(s) THEN None
  ELSE join_split([i \in DOMAIN s |-> casefold_char(s[i])] \o <<>>)

\* the value of a decimal digit, the value of digit text
DigitVal(ch) == CHOOSE n \in 0..9 : <<"0", "1", "2", "3", "4", "5", "6", "7", "8", "9">>[n + 1] = ch
RECURSIVE int_of(_)
int_of(v) == IF v = <<>> THEN 0 ELSE int_of(SubSeq(v, 1, Len(v) - 1)) * 10 + DigitVal(v[Len(v)])

\* a < b for two strings of digits, as Python compares str
RECURSIVE str_lt(_, _)
str_lt(a, b) ==
  IF b = <<>> THEN FALSE
  ELSE IF a = <<>> THEN TRUE
  ELSE IF Head(a) = Head(b) THEN str_lt(Tail(a), Tail(b))
  ELSE DigitVal(Head(a)) < DigitVal(Head(b))

\* the order of two values of a sort column, missing values last: -1, 0, 1.
\* A numeric column holds the results of to_numeric.
cmp_vals(u, v, numeric) ==
  IF isna(u) \/ isna(v) THEN (IF isna(u) /\ isna(v) THEN 0 ELSE IF isna(u) THEN 1 ELSE -1)
  ELSE IF numeric
       THEN (IF int_of(Tail(u)) < int_of(Tail(v)) THEN -1
             ELSE IF int_of(Tail(u)) > int_of(Tail(v)) THEN 1 ELSE 0)
       ELSE (IF u = v THEN 0 ELSE IF str_lt(u, v) THEN -1 ELSE 1)

\* x sorts before y under
\* sort_values(["PT_concept_id","min_levels_of_separation","SOC_concept_id"])
ca_before(x, y) ==
  \/ cmp_vals(x["PT_concept_id"], y["PT_concept_id"], FALSE) < 0
  \/ /\ cmp_vals(x["PT_concept_id"], y["PT_concept_id"], FALSE) = 0
     /\ \/ cmp_vals(x["min_levels_of_separation"], y["min_levels_of_separation"], TRUE) < 0
        \/ /\ cmp_vals(x["min_levels_of_separation"], y["min_levels_of_separation"], TRUE) = 0
           /\ cmp_vals(x["SOC_concept_id"], y["SOC_concept_id"], FALSE) < 0

\* x put into the sorted rows s behind the rows that do not sort after it
ca_insert(s, x) ==
  SubSeq(s, 1, Cardinality({i \in DOMAIN s : ~ca_before(x, s[i])})) \o <<x>>
  \o SubSeq(s, Cardinality({i \in DOMAIN s : ~ca_before(x, s[i])}) + 1, Len(s))

\* DataFrame.sort_values on several columns: a stable sort
RECURSIVE ca_sort(_)
ca_sort(rows) ==
  IF rows = <<>> THEN <<>>
  ELSE ca_insert(ca_sort(SubSeq(rows, 1, Len(rows) - 1)), rows[Len(rows)])

\* the strings of a set in ascending order
RECURSIVE sorted_strs(_)
sorted_strs(S) ==
  IF S = {} THEN <<>>
  ELSE <<CHOOSE x \in S : \A y \in S \ {x} : str_lt(x, y)>>
       \o sorted_strs(S \ {CHOOSE x \in S : \A y \in S \ {x} : str_lt(x, y)})

\* the first non-null value of column c in rows, NaN when there is none
first_valid(rows, c) ==
  IF \A i \in DOMAIN rows : isna(rows[i][c]) THEN NaN
  ELSE rows[CHOOSE i \in DOMAIN rows :
              ~isna(rows[i][c]) /\ \A j \in 1..(i - 1) : isna(rows[j][c])][c]

\* df.groupby(key, as_index=False).first(): one row per key, the keys in
\* ascending order, every other column holding its first non-null value of
\* the group
groupby_first(df, key, keys) ==
  [columns |-> <<key>> \o SelectSeq(df.columns, LAMBDA c : c # key),
   rows |-> [k \in DOMAIN keys |->
               [c \in Range(df.columns) |->
                  IF c = key THEN keys[k]
                  ELSE first_valid(SelectSeq(df.rows, LAMBDA r : r[key] = keys[k]), c)]
               @@ <<>>] \o <<>>]

\* lines 97-99
adr_meddra(con, class) ==
  query(con, LAMBDA x : str_upper(x["vocabulary_id"]) = <<"MEDDRA">>
                        /\ str_upper(x["concept_class_id"]) = class)

\* a frame with the column concept_name_key added
with_key(df, src) ==
  [columns |-> df.columns \o <<"concept_name_key">>,
   rows |-> [i \in DOMAIN df.rows |->
               df.rows[i] @@ ("concept_name_key" :> norm_key(df.rows[i][src]))] \o <<>>]

\* lines 82-83 and 102-105: pt_match
adr_pt_match(dict, con) ==
  merge(with_key(drop_duplicates(dropna(dict, {REAC}), {REAC}), REAC),
        project(with_key(adr_meddra(con, PT), "concept_name"),
                <<"concept_id", "concept_code", "concept_name", "concept_name_key",
                  "concept_class_id">>),
        <<"concept_name_key">>, <<"concept_name_key">>, "left")

\* lines 108-113: standard_reactions.csv.gz
adr_std_pt_of(pt_match) ==
  drop_duplicates_rows(
    project(rename(pt_match, LAMBDA c : CASE c = "concept_id" -> "MedDRA_concept_id"
                                          [] c = "concept_code" -> "MedDRA_concept_code"
                                          [] c = "concept_name" -> "MedDRA_concept_name"
                                          [] OTHER -> c),
            <<REAC, "MedDRA_concept_id", "MedDRA_concept_code", "MedDRA_concept_name">>))

\* concept[[id, code, name]].rename(...) with a prefix
adr_named(df, prefix) ==
  rename(project(df, <<"concept_id", "concept_code", "concept_name">>),
         LAMBDA c : prefix \o "_" \o c)

\* lines 116-128: ca, the ancestor rows of the matched PTs with their SOC
\* and PT attached
adr_ca(anc, con, pt_ids) ==
  merge(merge(query(anc, LAMBDA x : x["descendant_concept_id"] \in pt_ids),
              adr_named(adr_meddra(con, SOC), "SOC"),
              <<"ancestor_concept_id">>, <<"SOC_concept_id">>, "inner"),
        adr_named(adr_meddra(con, PT), "PT"),
        <<"descendant_concept_id">>, <<"PT_concept_id">>, "left")

\* lines 130-131: ca sorted, rows without PT dropped
adr_ca_sorted(ca) ==
  dropna([ca EXCEPT !.rows = ca_sort(MapCol(ca, "min_levels_of_separation", to_numeric).rows)],
         {"PT_concept_id"})

\* line 132
adr_best(cas) == groupby_first(cas, "PT_concept_id", sorted_strs(unique(cas, "PT_concept_id")))

\* lines 134-140: standard_reactions_meddra_soc.csv.gz
adr_std_soc_of(best) ==
  drop_duplicates_rows(
    project(rename(best, LAMBDA c : CASE c = "PT_concept_id" -> "MedDRA_concept_id_1"
                                      [] c = "PT_concept_code" -> "MedDRA_concept_code_1"
                                      [] c = "SOC_concept_id" -> "MedDRA_concept_id"
                                      [] c = "SOC_concept_code" -> "MedDRA_concept_code"
                                      [] c = "SOC_concept_name" -> "MedDRA_concept_name"
                                      [] OTHER -> c),
            <<"MedDRA_concept_id_1", "MedDRA_concept_code_1", "MedDRA_concept_id",
              "MedDRA_concept_code", "MedDRA_concept_name">>))

\* line 117: pt_ids
adr_pt_ids(pt_match) == unique(dropna(pt_match, {"concept_id"}), "concept_id")

adr_soc_from(pt_match, anc, con) ==
  adr_std_soc_of(adr_best(adr_ca_sorted(adr_ca(anc, con, adr_pt_ids(pt_match)))))

adr_write(pt_match, anc, con) ==
  /\ adr_std_pt' = [exists |-> TRUE, frame |-> adr_std_pt_of(pt_match)]
  /\ adr_std_soc' = [exists |-> TRUE, frame |-> adr_soc_from(pt_match, anc, con)]

\* ADR.main: the whole run
AdrMain ==
  /\ pc = "adr"
  /\ ~adr_std_pt.exists
  /\ adr_write(adr_pt_match(adr_dict, concept), concept_ancestor, concept)
  /\ UNCHANGED <<pc, except_adr, concept, adr_dict, concept_ancestor>>

----------------------------------------------------------------------------
(* Inputs of enrich/ADR.py *)
S9  == <<"9">>
P20 == <<"2", "0">>
P21 == <<"2", "1">>

\* a row of CONCEPT.csv as ADR.py uses it
adr_con_row(id, name, code, class) ==
  ("concept_id" :> id) @@ ("concept_name" :> name) @@ ("concept_code" :> code)
  @@ ("concept_class_id" :> class) @@ ("vocabulary_id" :> <<"MedDRA">>)

adr_concept_table(rows) ==
  [columns |-> <<"concept_id", "concept_name", "concept_code", "concept_class_id",
                 "vocabulary_id">>, rows |-> rows \o <<>>]

\* a row of CONCEPT_ANCESTOR.csv
anc_row(a, d, lv) ==
  ("ancestor_concept_id" :> a) @@ ("descendant_concept_id" :> d)
  @@ ("min_levels_of_separation" :> lv) @@ ("max_levels_of_separation" :> lv)

\* the rows tried: SOC 9, 10 or 13 above PT 20 or 21 at distance 2 or 3
AncRows ==
  {anc_row(a, d, lv) : a \in {S9, P10, S13}, d \in {P20, P21}, lv \in {<<"2">>, <<"3">>}}

\* the concept tables tried: PTs 20 (h) and 21 (n), SOCs 9, 10 and 13; the
\* code of SOC 10 is present or missing
AdrConcepts ==
  {adr_concept_table(<<adr_con_row(P20, <<"H">>, <<"c", "2", "0">>, <<"PT">>),
                       adr_con_row(P21, <<"n">>, <<"c", "2", "1">>, <<"PT">>),
                       adr_con_row(S9, <<"s", "9">>, <<"c", "9">>, <<"SOC">>),
                       adr_con_row(P10, <<"s", "1", "0">>, code10, <<"SOC">>),
                       adr_con_row(S13, <<"s", "1", "3">>, <<"c", "1", "3">>, <<"SOC">>)>>) :
     code10 \in {<<"c", "1", "0">>, NaN}}

\* the reaction dictionaries tried
adr_dict_row(reac, k) == (REAC :> reac) @@ ("reaction_key" :> k)

AdrDicts ==
  {<<adr_dict_row(<<"h">>, <<"1">>)>>,
   <<adr_dict_row(<<"h">>, <<"1">>), adr_dict_row(<<"N", " ">>, <<"2">>)>>,
   <<adr_dict_row(<<"x">>, <<"1">>), adr_dict_row(<<"H">>, <<"2">>)>>}

AdrInit ==
  /\ pc = "adr"
  /\ MergeIdle /\ Stage4Idle /\ HierIdle /\ ErIdle /\ SplitIdle /\ PipeIdle /\ VocabIdle
  /\ KeysIdle
  /\ LoopIdle
  /\ LimiterIdle
  /\ ScraperIdle
  /\ concept_relationship = NoFrame /\ rx_ids = {} /\ standard_drugs = NoFrame
  /\ std_ing = IngNotRun
  /\ concept \in AdrConcepts
  /\ \E d \in AdrDicts : adr_dict = [columns |-> <<REAC, "reaction_key">>, rows |-> d]
  /\ \E n \in 0..MaxAncRows : \E a \in [1..n -> AncRows] :
       concept_ancestor = [columns |-> <<"ancestor_concept_id", "descendant_concept_id",
                                         "min_levels_of_separation",
                                         "max_levels_of_separation">>, rows |-> a]
  /\ adr_std_pt = AdrNotRun /\ adr_std_soc = AdrNotRun

AdrNext == AdrMain

SpecAdr == AdrInit /\ [][AdrNext]_vars

----------------------------------------------------------------------------
(* core/openFDA_Entity_Relationship_Tables_v2.py: the tables built from
   shard files *)

\* str(float("nan")), what astype(str) makes of a missing value
nan_text == <<"n", "a", "n">>

\* to_str(df, col): df[col].astype(str) when the column is there
to_str(df, col) ==
  IF col \in Range(df.columns)
  THEN MapCol(df, col, LAMBDA v : IF isna(v) THEN nan_text ELSE v)
  ELSE df

\* read_csv_fast: the usecols that the file has, in the order of the file
read_csv_fast(file, usecols) ==
  project(file, SelectSeq(file.columns, LAMBDA c : c \in Range(usecols)))

\* pd.concat(parts, axis=0, ignore_index=True, sort=False)
RECURSIVE concat_parts(_)
concat_parts(ps) ==
  IF Len(ps) = 1 THEN ps[1]
  ELSE concat(concat_parts(SubSeq(ps, 1, Len(ps) - 1)), ps[Len(ps)])

\* the names of the columns in ascending order
ColumnOrder ==
  <<"companynumb", "master_age", "patient.patientsex", "patient_custom_master_age",
    "patient_sex", "receive_date", "receivedate", "reporter_company", "safetyreportid",
    "serious">>

\* sort_cols: df.reindex(sorted(df.columns), axis=1)
sort_cols(df) == project(df, SelectSeq(ColumnOrder, LAMBDA c : c \in Range(df.columns)))

\* a < b for two report keys as text; digits sort before letters
key_lt(a, b) ==
  IF a = nan_text THEN FALSE ELSE IF b = nan_text THEN TRUE ELSE str_lt(a, b)

\* the position of row i after sort_values(by=[safetyreportid]).  The frames
\* here have at most 16 rows, for which the default sort is an insertion
\* sort: rows with equal keys keep their order
sort_rank(rows, i) ==
  Cardinality({j \in DOMAIN rows : \/ key_lt(rows[j][KEY], rows[i][KEY])
                                   \/ (rows[j][KEY] = rows[i][KEY] /\ j <= i)})

sort_values_key(df) ==
  [df EXCEPT !.rows = [n \in DOMAIN df.rows |->
                         df.rows[CHOOSE i \in DOMAIN df.rows : sort_rank(df.rows, i) = n]]
                      \o <<>>]

\* .sort_values(by=[PRIMARY_KEY]).drop_duplicates(subset=[PRIMARY_KEY], keep="first")
first_per_key(df) == drop_duplicates(sort_values_key(df), {KEY})

\* the columns of the shards the model carries
patient_usecols == <<KEY, "master_age", "patient.patientsex">>
report_usecols  == <<KEY, "receivedate", "serious", "companynumb">>

patient_renames(c) ==
  CASE c = "master_age" -> "patient_custom_master_age"
    [] c = "patient.patientsex" -> "patient_sex"
    [] OTHER -> c

\* step_patient, lines 272-288, on the concatenated frame
patient_er(df) ==
  sort_cols(first_per_key(dropna(rename(to_str(df, KEY), patient_renames), {KEY})))

\* concat_files: one submitted read completes; as_completed hands its frame
\* to parts.append
ShardReadCompletes ==
  /\ pc \in {"er_patient", "er_report"}
  /\ \E i \in DOMAIN shards \ done :
       /\ done' = done \cup {i}
       /\ parts' = Append(parts, read_csv_fast(shards[i],
                                                IF pc = "er_patient" THEN patient_usecols
                                                ELSE report_usecols))
  /\ UNCHANGED <<pc, shards, patient_out, er_report_out, except_er>>

\* step_patient once every read has completed
StepPatient ==
  /\ pc = "er_patient"
  /\ done = DOMAIN shards
  /\ ~patient_out.exists
  /\ patient_out' = [exists |-> TRUE, frame |-> patient_er(concat_parts(parts))]
  /\ UNCHANGED <<pc, shards, done, parts, er_report_out, except_er>>

\* df.loc[:, cols] raises KeyError when df lacks one of cols
loc_raises(df, cols) == ~(Range(cols) \subseteq Range(df.columns))

\* the greatest of the values of a numeric column, missing values skipped;
\* NaN when all are missing
agg_max(vals) ==
  IF \A v \in vals : isna(v) THEN NaN
  ELSE CHOOSE v \in vals : ~isna(v) /\ \A w \in vals : isna(w) \/ int_of(w) <= int_of(v)

\* a column of whole numbers as it is written: read_csv makes it int64, and
\* float64 when a value is missing, and a float is written with ".0"
written_numbers(df, col, src, srccol) ==
  IF \E i \in DOMAIN src.rows : isna(src.rows[i][srccol])
  THEN MapCol(df, col, LAMBDA v : IF isna(v) THEN NaN ELSE v \o <<".", "0">>)
  ELSE df

\* groupby(safetyreportid, as_index=False).agg("max"): one row per key in
\* ascending key order
groupby_max(df, keys) ==
  [columns |-> <<KEY>> \o SelectSeq(df.columns, LAMBDA c : c # KEY),
   rows |-> [k \in DOMAIN keys |->
               [c \in Range(df.columns) |->
                  IF c = KEY THEN keys[k]
                  ELSE agg_max({r[c] : r \in {x \in Range(df.rows) : x[KEY] = keys[k]}})]
               @@ <<>>] \o <<>>]

\* the keys of a frame in ascending order
RECURSIVE sorted_keys(_)
sorted_keys(S) ==
  IF S = {} THEN <<>>
  ELSE <<CHOOSE x \in S : \A y \in S \ {x} : key_lt(x, y)>>
       \o sorted_keys(S \ {CHOOSE x \in S : \A y \in S \ {x} : key_lt(x, y)})

report_cols   == <<KEY, "receivedate">>
serious_cols  == <<KEY, "serious">>
reporter_cols == <<KEY, "companynumb">>

report_renames(c) ==
  CASE c = "receivedate" -> "receive_date"
    [] c = "companynumb" -> "reporter_company"
    [] OTHER -> c

\* step_report, lines 188-205: report.csv.gz
report_maxima(df) ==
  groupby_max(sort_cols(dropna(rename(project(df, report_cols), report_renames), {KEY})),
              sorted_keys(unique(df, KEY)))

report_er(df) == written_numbers(report_maxima(df), "receive_date", df, "receivedate")

\* step_report, lines 207-253: report_serious.csv.gz and reporter.csv.gz
first_er(df, cols) ==
  sort_cols(first_per_key(dropna(rename(project(df, cols), report_renames), {KEY})))

ErWritten(frame) == [exists |-> TRUE, frame |-> frame]

\* the files step_report has written and whether it raised: each table is
\* written before the next is selected from df
report_files(df) ==
  IF loc_raises(df, report_cols)
  THEN [report |-> ErNotWritten, serious |-> ErNotWritten, reporter |-> ErNotWritten,
        raised |-> TRUE, ended |-> TRUE]
  ELSE IF loc_raises(df, serious_cols)
  THEN [report |-> ErWritten(report_er(df)), serious |-> ErNotWritten,
        reporter |-> ErNotWritten, raised |-> TRUE, ended |-> TRUE]
  ELSE IF loc_raises(df, reporter_cols)
  THEN [report |-> ErWritten(report_er(df)), serious |-> ErWritten(first_er(df, serious_cols)),
        reporter |-> ErNotWritten, raised |-> TRUE, ended |-> TRUE]
  ELSE [report |-> ErWritten(report_er(df)), serious |-> ErWritten(first_er(df, serious_cols)),
        reporter |-> ErWritten(first_er(df, reporter_cols)), raised |-> FALSE, ended |-> TRUE]

\* step_report once every read has completed
StepReport ==
  /\ pc = "er_report"
  /\ done = DOMAIN shards
  /\ ~er_report_out.ended
  /\ er_report_out' = report_files(to_str(concat_parts(parts), KEY))
  /\ UNCHANGED <<pc, shards, done, parts, patient_out, except_er>>

----------------------------------------------------------------------------
(* Inputs: the shard files *)

\* a shard file of the given columns; the rows give every column a value
shard(cols, rows) ==
  [columns |-> cols,
   rows |-> [i \in DOMAIN rows |-> [c \in Range(cols) |-> rows[i][c]] @@ <<>>] \o <<>>]

\* the patient rows tried: key 1 or 2 or none, age 5 or 7
PatientShardRows ==
  {(KEY :> k) @@ ("master_age" :> a) @@ ("patient.patientsex" :> <<"F">>) :
     k \in {<<"1">>, <<"2">>, NaN}, a \in {<<"5">>, <<"7">>}}

\* the report rows tried
ReportShardRows ==
  {(KEY :> k) @@ ("receivedate" :> d) @@ ("serious" :> <<"1">>) @@ ("companynumb" :> c) :
     k \in {<<"1">>, <<"2">>}, d \in {<<"3">>, <<"2", "0">>, NaN}, c \in {<<"x">>, <<"y">>}}

\* two shard files with MaxShardRows + 1 rows together at most, each in one
\* of the layouts
ShardPairs(layouts, rowset) ==
  {<<shard(l[1], r1), shard(l[2], r2)>> :
     l \in layouts \X layouts,
     r1 \in UNION {[1..n -> rowset] : n \in 1..MaxShardRows},
     r2 \in UNION {[1..n -> rowset] : n \in 1..MaxShardRows}}

ErInputs(layouts, rowset) ==
  {s \in ShardPairs(layouts, rowset) : Len(s[1].rows) + Len(s[2].rows) <= MaxShardRows + 1}

ErInit(step, layouts, rowset) ==
  /\ pc = step
  /\ MergeIdle /\ Stage4Idle /\ IngIdle /\ HierIdle /\ AdrIdle /\ SplitIdle /\ PipeIdle /\ VocabIdle
  /\ KeysIdle
  /\ LoopIdle
  /\ LimiterIdle
  /\ ScraperIdle
  /\ shards \in ErInputs(layouts, rowset)
  /\ done = {} /\ parts = <<>>
  /\ patient_out = ErNotWritten /\ er_report_out = ReportNotRun

PatientInit ==
  ErInit("er_patient", {<<KEY, "master_age", "patient.patientsex">>, <<"master_age", KEY>>},
         PatientShardRows)

PatientNext == ShardReadCompletes \/ StepPatient

SpecErPatient == PatientInit /\ [][PatientNext]_vars

ReportInit ==
  ErInit("er_report", {<<KEY, "receivedate", "serious", "companynumb">>,
                       <<KEY, "receivedate", "serious">>}, ReportShardRows)

ReportNext == ShardReadCompletes \/ StepReport

SpecErReport == ReportInit /\ [][ReportNext]_vars

----------------------------------------------------------------------------
(* split/split_adr.py and split/split_drug.py *)

\* the text column of the stage, its optional column, the column of the slug
text_col(stage) == IF stage = "adr" THEN REAC ELSE MP
opt_col(stage)  == IF stage = "adr" THEN "reaction_outcome" ELSE "drug_characterization"
slug_col(stage) == IF stage = "adr" THEN "reaction_key" ELSE "product_key"

\* the key column of a chunk as pd.read_csv without dtype hands it over:
\* whole numbers, written with ".0" when the chunk has a missing key
read_key_column(rows) ==
  IF \E i \in DOMAIN rows : isna(rows[i][KEY])
  THEN [i \in DOMAIN rows |->
          [rows[i] EXCEPT ![KEY] = IF isna(@) THEN NaN ELSE @ \o <<".", "0">>]] \o <<>>
  ELSE rows

\* common_utils.to_str_sid: str(int(str(x).strip())), and str(x).strip()
\* when that raises; a missing value becomes the text "nan"
split_to_str_sid(x) ==
  IF isna(x) THEN nan_text
  ELSE IF IsDigits(strip(x)) THEN astype_int(strip(x)) ELSE strip(x)

\* str.lower and re.sub(r"[^a-z0-9\s]", " ", s) on one character
slug_char(ch) == CASE ch = "H" -> "h" [] ch = "-" -> " " [] OTHER -> ch

\* common_utils.slug_key
slug_key(s) == IF isna(s) THEN None ELSE join_split([i \in DOMAIN s |-> slug_char(s[i])] \o <<>>)

\* the keys of one baseline chunk that are inserted into table sids
baseline_sids(chunk) ==
  {split_to_str_sid(r[KEY]) : r \in Range(read_key_column(chunk))}

\* usecols: the wanted columns the file has; read_csv returns them in the
\* order of the file
split_usecols(file, stage) ==
  SelectSeq(file.columns, LAMBDA c : c \in {KEY, text_col(stage), opt_col(stage)})

\* the required columns that the file lacks
split_missing(file, stage) == {KEY, text_col(stage)} \ Range(file.columns)

\* a chunk of the input read with usecols, its keys normalised
split_read(file, stage, from, to) ==
  MapCol([columns |-> split_usecols(file, stage),
          rows |-> read_key_column(SubSeq(project(file, split_usecols(file, stage)).rows,
                                          from, to))],
         KEY, split_to_str_sid)

\* Series.unique().tolist(): the values in order of first appearance
RECURSIVE uniq_list(_)
uniq_list(vals) ==
  IF vals = <<>> THEN <<>>
  ELSE LET before == uniq_list(SubSeq(vals, 1, Len(vals) - 1))
       IN IF vals[Len(vals)] \in Range(before) THEN before
          ELSE Append(before, vals[Len(vals)])

\* keep_sids: one SELECT ... WHERE sid IN (...) per batch of step keys
RECURSIVE keep_sids(_, _, _)
keep_sids(uniq, index, step) ==
  IF uniq = <<>> THEN {}
  ELSE (Range(SubSeq(uniq, 1, Min(step, Len(uniq)))) \cap index)
       \cup keep_sids(SubSeq(uniq, Min(step, Len(uniq)) + 1, Len(uniq)), index, step)

\* the rows of the chunk whose key is in keep_sids, none when keep_sids is
\* empty (continue); without an index every row
split_lookup(ch, index, indexed) ==
  IF indexed
  THEN query(ch, LAMBDA r : r[KEY] \in keep_sids(uniq_list([i \in DOMAIN ch.rows |->
                                                              ch.rows[i][KEY]] \o <<>>),
                                                 index, LookupStep))
  ELSE ch

\* the chunk with the column of the slug added
with_slug(df, stage) ==
  [columns |-> df.columns \o <<slug_col(stage)>>,
   rows |-> [i \in DOMAIN df.rows |->
               df.rows[i] @@ (slug_col(stage) :> slug_key(df.rows[i][text_col(stage)]))] \o <<>>]

\* split_adr, lines 50-72, and split_drug, lines 44-74: the rows of one
\* chunk that are appended to the map.  split_adr drops the rows without
\* key or text before the lookup, split_drug the rows without text after it;
\* split_drug orders the columns key, text, optional column
split_chunk_map(ch, stage, index, indexed) ==
  with_slug(
    drop_duplicates(
      IF stage = "adr"
      THEN split_lookup(dropna(ch, {KEY, REAC}), index, indexed)
      ELSE dropna(project(split_lookup(ch, index, indexed),
                          SelectSeq(<<KEY, MP, "drug_characterization">>,
                                    LAMBDA c : c \in Range(ch.columns))), {MP}),
      {KEY, text_col(stage)}),
    stage)

\* dict_map after a chunk: the new texts in order of first appearance
RECURSIVE dict_update(_, _)
dict_update(dm, texts) ==
  IF texts = <<>> THEN dm
  ELSE dict_update(IF Head(texts) \in Range(dm) THEN dm ELSE Append(dm, Head(texts)),
                   Tail(texts))

chunk_texts(df, stage) == [i \in DOMAIN df.rows |-> df.rows[i][text_col(stage)]] \o <<>>

\* the dictionary written at the end: text and slug
split_dict_rows(dm) == [i \in DOMAIN dm |-> <<dm[i], slug_key(dm[i])>>] \o <<>>

split_unchanged_inputs == <<split_stage, split_base, split_in>>

\* main, lines 16-24 (split_drug 14-21): with a baseline, the index file of
\* an earlier run is removed and a new one is created with table sids
SplitStart ==
  /\ pc = "split_start"
  /\ IF split_base.given
     THEN /\ sid_db' = [exists |-> TRUE, sids |-> {}, fresh |-> TRUE]
          /\ pc' = "split_ingest"
     ELSE /\ sid_db' = sid_db
          /\ pc' = IF split_stage = "adr" THEN "split_open" ELSE "split_memory"
  /\ UNCHANGED <<split_unchanged_inputs, split_pos, split_map, split_dict, dict_map,
                 index_log, except_split>>

\* one baseline chunk: INSERT OR IGNORE of its keys.  The files have at most
\* MaxSplitRows rows, so a chunk size chosen per chunk gives the chunkings
\* of every fixed chunk size
SplitIngest ==
  /\ pc = "split_ingest"
  /\ split_pos < Len(split_base.rows)
  /\ \E n \in 1..SplitChunkRows :
       /\ sid_db' = [sid_db EXCEPT !.sids = @ \cup baseline_sids(
                        SubSeq(split_base.rows, split_pos + 1,
                               Min(split_pos + n, Len(split_base.rows))))]
       /\ split_pos' = Min(split_pos + n, Len(split_base.rows))
  /\ index_log' = Append(index_log, "insert")
  /\ UNCHANGED <<pc, split_unchanged_inputs, split_map, split_dict, dict_map, except_split>>

\* after the last baseline chunk: commit, CREATE INDEX, commit.  split_drug
\* then inspects the header of its input before it opens the map
SplitIndexed ==
  /\ pc = "split_ingest"
  /\ split_pos = Len(split_base.rows)
  /\ split_pos' = 0
  /\ pc' = IF split_stage = "drug" /\ split_missing(split_in, "drug") # {}
           THEN "split_abort" ELSE "split_open"
  /\ UNCHANGED <<split_unchanged_inputs, sid_db, split_map, split_dict, dict_map,
                 index_log, except_split>>

\* gzip.open(map_path, "wt") creates or truncates the map; split_adr
\* inspects the header of its input after that
SplitOpenMap ==
  /\ pc = "split_open"
  /\ split_map' = [exists |-> TRUE, header |-> <<>>, lines |-> <<>>, fresh |-> TRUE]
  /\ pc' = IF split_stage = "adr" /\ split_missing(split_in, "adr") # {}
           THEN "split_abort" ELSE "split_stream"
  /\ UNCHANGED <<split_unchanged_inputs, sid_db, split_pos, split_dict, dict_map,
                 index_log, except_split>>

\* what one chunk appends to the map and to dict_map
split_append(cm) ==
  /\ split_map' = IF cm.rows = <<>> THEN split_map
                  ELSE [split_map EXCEPT !.header = IF @ = <<>> THEN cm.columns ELSE @,
                                         !.lines = @ \o csv_lines(cm)]
  /\ dict_map' = dict_update(dict_map, chunk_texts(cm, split_stage))

\* what split_drug writes from the frame it holds in memory
split_written(cm) ==
  /\ split_map' = [exists |-> TRUE, header |-> cm.columns, lines |-> csv_lines(cm),
                   fresh |-> TRUE]
  /\ dict_map' = dict_update(<<>>, chunk_texts(cm, "drug"))
  /\ split_dict' = [exists |-> TRUE, header |-> <<MP, "product_key">>,
                    lines |-> split_dict_rows(dict_update(<<>>, chunk_texts(cm, "drug"))),
                    fresh |-> TRUE]

\* one chunk of the input: lookup of its keys in the index, the rows kept
\* are appended to the map
SplitChunk ==
  /\ pc = "split_stream"
  /\ split_pos < Len(split_in.rows)
  /\ \E n \in 1..SplitChunkRows :
       /\ split_append(split_chunk_map(
            split_read(split_in, split_stage, split_pos + 1,
                       Min(split_pos + n, Len(split_in.rows))),
            split_stage, sid_db.sids, split_base.given))
       /\ split_pos' = Min(split_pos + n, Len(split_in.rows))
  /\ index_log' = IF split_base.given THEN Append(index_log, "lookup") ELSE index_log
  /\ UNCHANGED <<pc, split_unchanged_inputs, sid_db, split_dict, except_split>>

\* after the last chunk: the dictionary and the statistics are written;
\* split_drug closes the connection
SplitFinish ==
  /\ pc = "split_stream"
  /\ split_pos = Len(split_in.rows)
  /\ split_dict' = [exists |-> TRUE, header |-> <<text_col(split_stage), slug_col(split_stage)>>,
                    lines |-> split_dict_rows(dict_map), fresh |-> TRUE]
  /\ pc' = "split_done"
  /\ UNCHANGED <<split_unchanged_inputs, sid_db, split_pos, split_map, dict_map,
                 index_log, except_split>>

\* split_drug without a baseline, lines 94-126: the whole file in memory;
\* the map and the dictionary are written at the end
SplitMemory ==
  /\ pc = "split_memory"
  /\ IF split_missing(split_in, "drug") # {}
     THEN /\ pc' = "split_abort"
          /\ UNCHANGED <<split_map, split_dict, dict_map>>
     ELSE /\ pc' = "split_done"
          /\ split_written(split_chunk_map(split_read(split_in, "drug", 1, Len(split_in.rows)),
                                           "drug", {}, FALSE))
  /\ UNCHANGED <<split_unchanged_inputs, sid_db, split_pos, index_log, except_split>>

----------------------------------------------------------------------------
(* Inputs of the split stages *)

\* the baseline keys tried
SplitKeys == {<<"1">>, <<"2">>, NaN}

\* the input rows tried: a key, a text and a value of the optional column
SplitRows(stage) ==
  {(KEY :> k) @@ (text_col(stage) :> t) @@ (opt_col(stage) :> <<"o">>) :
     k \in SplitKeys, t \in {<<"H">>, <<"h", "-">>}}

\* the layouts of the input tried: every column, no optional column, no
\* text column
SplitLayouts(stage) ==
  {<<KEY, text_col(stage), opt_col(stage)>>, <<text_col(stage), KEY>>, <<KEY, opt_col(stage)>>}

\* files left by an earlier run
StaleIndex == [exists |-> TRUE, sids |-> {<<"9">>}, fresh |-> FALSE]
StaleFile  == [exists |-> TRUE, header |-> <<"old">>, lines |-> <<<<<<"old">>>>>>, fresh |-> FALSE]

SplitInit ==
  /\ pc = "split_start"
  /\ MergeIdle /\ Stage4Idle /\ IngIdle /\ HierIdle /\ AdrIdle /\ ErIdle /\ PipeIdle /\ VocabIdle
  /\ KeysIdle
  /\ LoopIdle
  /\ LimiterIdle
  /\ ScraperIdle
  /\ split_stage \in {"adr", "drug"}
  /\ \/ split_base = [given |-> FALSE, rows |-> <<>>]
     \/ \E n \in 1..MaxSplitRows : \E k \in [1..n -> SplitKeys] :
          split_base = [given |-> TRUE, rows |-> [i \in 1..n |-> (KEY :> k[i])]]
  /\ \E n \in 0..MaxSplitRows : \E r \in [1..n -> SplitRows(split_stage)] :
     \E l \in SplitLayouts(split_stage) : split_in = shard(l, r)
  /\ sid_db \in {NoIndex, StaleIndex}
  /\ split_map \in {NoSplitFile, StaleFile}
  /\ split_dict \in {NoSplitFile, StaleFile}
  /\ split_pos = 0 /\ dict_map = <<>> /\ index_log = <<>>

SplitNext ==
  \/ SplitStart \/ SplitIngest \/ SplitIndexed \/ SplitOpenMap
  \/ SplitChunk \/ SplitFinish \/ SplitMemory

SpecSplit == SplitInit /\ [][SplitNext]_vars

----------------------------------------------------------------------------
(* run_pipeline.py: the stages from Stage-3 on, at the level of files *)

\* what a .gz file can be: missing; an empty gzip stream; cut off by an
\* interrupted writer (truncated); a valid gzip holding only the first
\* chunks of an interrupted writer (partial); complete but damaged
\* (corrupt); complete
FileStates == {"missing", "empty", "truncated", "partial", "corrupt", "complete"}

\* gz_has_data: the first bytes decompress to something
gz_has_data(st) == st \in {"truncated", "partial", "corrupt", "complete"}

\* file_ready
file_ready(st) == st # "missing" /\ gz_has_data(st)

\* verify_gz_crc: the whole file decompresses
verify_gz_crc(st) == st \in {"empty", "partial", "complete"}

\* a child script that reads the file raises
unreadable(st) == st \in {"missing", "empty", "truncated", "corrupt"}

\* the ER tables and the names preflight_after_stage3 accepts for each
ErAlt ==
  [patient |-> <<"patient">>, report |-> <<"report">>,
   report_serious |-> <<"report_serious">>, reporter |-> <<"reporter">>,
   patient_reaction |-> <<"patient_reaction", "reactions">>,
   patient_drug |-> <<"patient_drug", "drugcharacteristics", "drugs">>]

ErFiles == UNION {Range(ErAlt[l]) : l \in DOMAIN ErAlt}

OutFiles == {"baseline", "adr_dict", "adr_map", "drug_dict", "drug_map", "std_react",
             "soc_map", "drug_rxnorm", "final"}

\* the candidates of a logical table that preflight verifies: it stops at
\* the first that exists and passes
RECURSIVE verified_of(_, _)
verified_of(fs, cands) ==
  IF cands = <<>> THEN {}
  ELSE IF fs[Head(cands)] # "missing" /\ verify_gz_crc(fs[Head(cands)]) THEN {Head(cands)}
  ELSE verified_of(fs, Tail(cands))

\* preflight_after_stage3: the files reported bad
preflight_bad(fs) ==
  (IF fs["baseline"] = "missing" \/ ~verify_gz_crc(fs["baseline"]) THEN {"baseline"} ELSE {})
  \cup {l \in DOMAIN ErAlt : verified_of(fs, ErAlt[l]) = {}}

\* the files that passed verify_gz_crc in a preflight
preflight_passed(fs) ==
  (IF fs["baseline"] # "missing" /\ verify_gz_crc(fs["baseline"]) THEN {"baseline"} ELSE {})
  \cup UNION {verified_of(fs, ErAlt[l]) : l \in DOMAIN ErAlt}

\* what each child script reads and writes, the streamed output first
Reads ==
  [s3 |-> {"patient", "report", "report_serious", "reporter"},
   s4adr |-> {"baseline", "reactions"},
   s4drug |-> {"baseline", "drugcharacteristics"},
   s5 |-> {"adr_dict"},
   s6 |-> {"drug_dict"},
   s7 |-> {"baseline", "drug_map", "drug_rxnorm", "adr_map", "std_react", "soc_map"}]

Writes ==
  [s3 |-> <<"baseline">>, s4adr |-> <<"adr_map", "adr_dict">>,
   s4drug |-> <<"drug_map", "drug_dict">>, s5 |-> <<"std_react", "soc_map">>,
   s6 |-> <<"drug_rxnorm">>, s7 |-> <<"final">>]

\* the reads of a child, as entries of the log
reads_of(stage, fs, ok) ==
  {[stage |-> stage, file |-> f, state |-> fs[f], verified |-> f \in ok] : f \in Reads[stage]}

\* run_step of a child that runs to its end: it raises when an input cannot
\* be read, else every output is written whole
child_fails(stage, fs) == \E f \in Reads[stage] : unreadable(fs[f])

files_written(stage, fs) ==
  [f \in DOMAIN fs |-> IF f \in Range(Writes[stage]) THEN "complete" ELSE fs[f]]

\* a child killed while it writes its k-th output: the outputs before it
\* are whole, the file is just created or cut off (the baseline, which is
\* appended chunk by chunk, may also hold whole chunks only), the outputs
\* after it are as before
files_interrupted(stage, fs, k, left) ==
  [f \in DOMAIN fs |->
     IF f = Writes[stage][k] THEN left
     ELSE IF \E j \in 1..(k - 1) : f = Writes[stage][j] THEN "complete"
     ELSE fs[f]]

LeftBy(stage) == IF stage = "s3" THEN {"truncated", "partial"} ELSE {"truncated", "empty"}

\* the outcomes of run_step: the child ends (and the pipeline goes on to
\* next), or raises (the run aborts), or is interrupted with the run
run_child(stage, next, ok) ==
  /\ pipe_log' = pipe_log \cup reads_of(stage, files, ok)
  /\ IF child_fails(stage, files)
     THEN /\ pc' = "pipe_abort"
          /\ UNCHANGED files
     ELSE \/ /\ files' = files_written(stage, files)
             /\ pc' = next
          \/ /\ stage \in {"s3", "s4adr", "s4drug", "s5"}
             /\ \E k \in DOMAIN Writes[stage] : \E left \in LeftBy(stage) :
                  files' = files_interrupted(stage, files, k, left)
             /\ pc' = "pipe_stopped"

\* Stage-3, lines 658-672: the merge is run when the baseline is not ready,
\* and re-run when the baseline is ready but the preflight reports a bad file
Stage3 ==
  /\ pc = "pipe_s3"
  /\ IF force \/ ~file_ready(files["baseline"])
     THEN /\ run_child("s3", "pipe_preflight", verified)
          /\ UNCHANGED <<verified, skipped>>
     ELSE /\ verified' = preflight_passed(files)
          /\ IF preflight_bad(files) # {}
             THEN /\ run_child("s3", "pipe_preflight", preflight_passed(files))
                  /\ UNCHANGED skipped
             ELSE /\ pc' = "pipe_preflight"
                  /\ skipped' = skipped \cup {[stage |-> "s3", file |-> "baseline",
                                               state |-> files["baseline"]]}
                  /\ UNCHANGED <<files, pipe_log>>
  /\ UNCHANGED <<runs, force, except_pipe>>

\* lines 674-679: the preflight after the merge; fatal when a file is bad
Preflight ==
  /\ pc = "pipe_preflight"
  /\ IF preflight_bad(files) # {}
     THEN pc' = "pipe_abort" /\ UNCHANGED verified
     ELSE pc' = "pipe_s4adr" /\ verified' = preflight_passed(files)
  /\ UNCHANGED <<files, pipe_log, skipped, runs, force, except_pipe>>

\* a stage that is skipped when its outputs are ready
stage_or_skip(stage, outs, next) ==
  IF ~force /\ \A f \in outs : file_ready(files[f])
  THEN /\ pc' = next
       /\ skipped' = skipped \cup {[stage |-> stage, file |-> f, state |-> files[f]] : f \in outs}
       /\ UNCHANGED <<files, pipe_log>>
  ELSE /\ run_child(stage, next, verified)
       /\ UNCHANGED skipped

\* Stage-4, lines 693-699: split_adr
Stage4Adr ==
  /\ pc = "pipe_s4adr"
  /\ stage_or_skip("s4adr", {"adr_dict", "adr_map"}, "pipe_s4drug")
  /\ UNCHANGED <<verified, runs, force, except_pipe>>

\* Stage-4, lines 701-709: split_drug
Stage4Drug ==
  /\ pc = "pipe_s4drug"
  /\ stage_or_skip("s4drug", {"drug_dict", "drug_map"}, "pipe_s5")
  /\ UNCHANGED <<verified, runs, force, except_pipe>>

\* Stage-5, lines 725-737: ADR.py
Stage5 ==
  /\ pc = "pipe_s5"
  /\ stage_or_skip("s5", {"std_react", "soc_map"}, "pipe_s6")
  /\ UNCHANGED <<verified, runs, force, except_pipe>>

\* Stage-6, lines 754-789: clean_drug and rxnav_enrich
Stage6 ==
  /\ pc = "pipe_s6"
  /\ stage_or_skip("s6", {"drug_rxnorm"}, "pipe_s7")
  /\ UNCHANGED <<verified, runs, force, except_pipe>>

\* Stage-7, lines 796-819: stage4_merge_back, or with --force the fallback
\* merger on the same files; never skipped
Stage7 ==
  /\ pc = "pipe_s7"
  /\ run_child("s7", "pipe_done", verified)
  /\ UNCHANGED <<verified, skipped, runs, force, except_pipe>>

\* run_pipeline is started again after an interrupted run
Rerun ==
  /\ pc = "pipe_stopped"
  /\ runs < MaxRuns
  /\ runs' = runs + 1
  /\ pc' = "pipe_s3"
  /\ verified' = {}
  /\ force' \in BOOLEAN
  /\ UNCHANGED <<files, pipe_log, skipped, except_pipe>>

----------------------------------------------------------------------------
(* Inputs of run_pipeline *)

\* the ER tables: the alternative names patient_reaction and patient_drug
\* are not there, one of the others may be damaged
ErTables ==
  {[f \in ErFiles |-> IF f \in {"patient_reaction", "patient_drug"} THEN "missing"
                      ELSE IF f = bad THEN "corrupt" ELSE "complete"] :
     bad \in ErFiles}

\* the outputs: none yet, or those of an older run that finished
OldOutputs == {[f \in OutFiles |-> st] : st \in {"missing", "complete"}}

PipeInit ==
  /\ pc = "pipe_s3"
  /\ MergeIdle /\ Stage4Idle /\ IngIdle /\ HierIdle /\ AdrIdle /\ ErIdle /\ SplitIdle
  /\ VocabIdle
  /\ KeysIdle
  /\ LoopIdle
  /\ LimiterIdle
  /\ ScraperIdle
  /\ \E er \in ErTables : \E out \in OldOutputs : files = er @@ out
  /\ pipe_log = {} /\ skipped = {} /\ verified = {} /\ runs = 1
  /\ force \in BOOLEAN

PipeNext ==
  \/ Stage3 \/ Preflight \/ Stage4Adr \/ Stage4Drug \/ Stage5 \/ Stage6 \/ Stage7 \/ Rerun

SpecPipeline == PipeInit /\ [][PipeNext]_vars

----------------------------------------------------------------------------
(* openFDA_Entity_Relationship_Tables_v2.py: load_vocab and
   step_standard_drugs *)

\* the text of a non-negative integer as int() prints it: no leading zero
RECURSIVE strip_zeros(_)
strip_zeros(v) == IF Len(v) > 1 /\ Head(v) = "0" THEN strip_zeros(Tail(v)) ELSE v

\* an integer value of a frame
as_int(v) == <<"num">> \o strip_zeros(v)

\* a field of a CSV file read with dtype object: an empty field is missing
read_object(txt) == IF txt = <<>> THEN NaN ELSE txt

\* read_csv with dtype "int" for the column: the C parser raises ValueError
\* on a field that is empty or not an integer literal
int_column_raises(rows, col) == \E i \in DOMAIN rows : ~IsDigits(rows[i][col])

\* read_csv(..., dtype={ints: "int", objects: "object"}) of a file whose
\* fields are all convertible
read_vocab_csv(cols, rows, ints) ==
  [columns |-> cols,
   rows |-> [i \in DOMAIN rows |->
               [c \in Range(cols) |-> IF c \in ints THEN as_int(rows[i][c])
                                      ELSE read_object(rows[i][c])] @@ <<>>] \o <<>>]

ConceptCols == <<"concept_id", "concept_name", "vocabulary_id", "concept_class_id",
                 "concept_code">>
RelationshipCols == <<"concept_id_1", "concept_id_2", "relationship_id">>

\* load_vocab, lines 357-362: CONCEPT.csv
LoadConcept ==
  /\ pc = "vocab_concept"
  /\ IF int_column_raises(vocab_files.concept, "concept_id")
     THEN /\ vocab_error' = "ValueError"
          /\ pc' = "vocab_abort"
          /\ UNCHANGED concept_loaded
     ELSE /\ concept_loaded' = read_vocab_csv(ConceptCols, vocab_files.concept, {"concept_id"})
          /\ pc' = "vocab_relationship"
          /\ UNCHANGED vocab_error
  /\ UNCHANGED <<vocab_files, relationship_loaded, std_drugs_file, rxnorm_ids, except_vocab>>

\* load_vocab, lines 363-369: CONCEPT_RELATIONSHIP.csv
LoadRelationship ==
  /\ pc = "vocab_relationship"
  /\ IF \E c \in {"concept_id_1", "concept_id_2"} :
          int_column_raises(vocab_files.relationship, c)
     THEN /\ vocab_error' = "ValueError"
          /\ pc' = "vocab_abort"
          /\ UNCHANGED relationship_loaded
     ELSE /\ relationship_loaded' =
               read_vocab_csv(RelationshipCols, vocab_files.relationship,
                              {"concept_id_1", "concept_id_2"})
          /\ pc' = "vocab_drugs"
          /\ UNCHANGED vocab_error
  /\ UNCHANGED <<vocab_files, concept_loaded, std_drugs_file, rxnorm_ids, except_vocab>>

\* pd.to_numeric(errors="coerce") followed by astype(int) on what is left
code_to_numeric(v) == IF ~isna(v) /\ IsDigits(v) THEN as_int(v) ELSE NaN

\* lines 377-385: the RxNorm concepts with a numeric concept_code
rx_concepts(loaded) ==
  dropna(MapCol(dropna(project(query(loaded, LAMBDA r : r["vocabulary_id"] = <<"RxNorm">>),
                               <<"concept_id", "concept_code", "concept_name",
                                 "concept_class_id">>),
                       {"concept_code"}),
                "concept_code", code_to_numeric),
         {"concept_code"})

\* the new names of the concept columns
rx_renames(c) ==
  CASE c = "concept_code" -> "RxNorm_concept_code"
    [] c = "concept_id" -> "RxNorm_concept_id"
    [] c = "concept_name" -> "RxNorm_concept_name"
    [] c = "concept_class_id" -> "RxNorm_concept_class_id"
    [] OTHER -> c

\* validate="many_to_one": MergeError when a key occurs twice on the right
many_to_one_raises(right, key) ==
  \E i, j \in DOMAIN right.rows : i # j /\ right.rows[i][key] = right.rows[j][key]

\* sorted(columns) of standard_drugs
StdDrugCols == <<"RxNorm_concept_class_id", "RxNorm_concept_code", "RxNorm_concept_id",
                 "RxNorm_concept_name", "rxcui", KEY>>

\* lines 387-404: the joined frame
std_drugs_joined(drugs, rx) ==
  project(drop_duplicates(merge(drugs, rename(rx, rx_renames), <<"rxcui">>,
                                <<"RxNorm_concept_code">>, "inner"),
                          Range(StdDrugCols)),
          StdDrugCols)

\* step_standard_drugs
StepStandardDrugs ==
  /\ pc = "vocab_drugs"
  /\ IF many_to_one_raises(rx_concepts(concept_loaded), "concept_code")
     THEN /\ vocab_error' = "MergeError"
          /\ pc' = "vocab_abort"
          /\ UNCHANGED <<std_drugs_file, rxnorm_ids>>
     ELSE /\ std_drugs_file' = std_drugs_joined(vocab_files.drugs, rx_concepts(concept_loaded))
          /\ rxnorm_ids' = unique(std_drugs_file', "RxNorm_concept_id")
          /\ pc' = "vocab_done"
          /\ UNCHANGED vocab_error
  /\ UNCHANGED <<vocab_files, concept_loaded, relationship_loaded, except_vocab>>

----------------------------------------------------------------------------
(* Inputs of load_vocab and step_standard_drugs *)

concept_line(id, code) ==
  [concept_id |-> id, concept_name |-> <<"n">> \o id, vocabulary_id |-> <<"RxNorm">>,
   concept_class_id |-> <<"Ingredient">>, concept_code |-> code]

\* lines of CONCEPT.csv: ids that are integers, text or empty; codes that
\* are numeric (two spellings of 7), text or empty
ConceptLines ==
  {concept_line(id, code) : id \in {<<"1">>, <<"2">>, <<"x">>, <<>>},
                            code \in {<<"7">>, <<"0", "7">>, <<"8">>, <<"a">>, <<>>}}

RelationshipLines ==
  {[concept_id_1 |-> a, concept_id_2 |-> b, relationship_id |-> <<"Maps to">>] :
     a \in {<<"1">>, <<"x">>}, b \in {<<"2">>, <<>>}}

\* drugs.csv.gz as step_patient_drug wrote it: rxcui integers
DrugsFile ==
  [columns |-> <<KEY, "rxcui">>,
   rows |-> <<(KEY :> <<"1">>) @@ ("rxcui" :> as_int(<<"7">>)),
              (KEY :> <<"2">>) @@ ("rxcui" :> as_int(<<"8">>))>>]

VocabInit ==
  /\ pc = "vocab_concept"
  /\ MergeIdle /\ Stage4Idle /\ IngIdle /\ HierIdle /\ AdrIdle /\ ErIdle /\ SplitIdle /\ PipeIdle
  /\ KeysIdle
  /\ LoopIdle
  /\ LimiterIdle
  /\ ScraperIdle
  /\ \E c \in UNION {[1..n -> ConceptLines] : n \in 0..MaxVocabRows} :
     \E r \in UNION {[1..n -> RelationshipLines] : n \in 0..1} :
       vocab_files = [concept |-> c, relationship |-> r, drugs |-> DrugsFile]
  /\ concept_loaded = NoFrame /\ relationship_loaded = NoFrame
  /\ std_drugs_file = NoFrame /\ rxnorm_ids = {} /\ vocab_error = ""

VocabNext == LoadConcept \/ LoadRelationship \/ StepStandardDrugs

SpecVocab == VocabInit /\ [][VocabNext]_vars

----------------------------------------------------------------------------
(* The report-key normalizers of the stages *)

Normalizers == {"merge", "split", "stage4"}

\* the key a stage makes of a value
normalized(stage, x) ==
  CASE stage = "merge" -> merge_to_str_sid(x)
    [] stage = "split" -> split_to_str_sid(x)
    [] stage = "stage4" -> to_str_sid(x)

\* a stage normalizes the value
ApplyNormalizer ==
  /\ pc = "keys"
  /\ \E stage \in Normalizers \ DOMAIN sid_keys :
       sid_keys' = sid_keys @@ (stage :> normalized(stage, sid_raw))
  /\ UNCHANGED <<pc, sid_raw, except_keys>>

\* the texts of at most n characters over an alphabet
RECURSIVE Texts(_, _)
Texts(alphabet, n) ==
  IF n = 0 THEN {<<>>}
  ELSE LET shorter == Texts(alphabet, n - 1)
       IN shorter \cup {Append(t, ch) : t \in shorter, ch \in alphabet}

\* values of a key column: missing, or text of digits, dots and blanks
SidValues == {NaN} \cup (Texts({"0", "1", ".", " "}, MaxSidLen) \ {<<>>})

KeysInit ==
  /\ pc = "keys"
  /\ MergeIdle /\ Stage4Idle /\ IngIdle /\ HierIdle /\ AdrIdle /\ ErIdle /\ SplitIdle /\ PipeIdle
  /\ VocabIdle
  /\ LoopIdle
  /\ LimiterIdle
  /\ ScraperIdle
  /\ sid_raw \in SidValues
  /\ sid_keys = <<>>

KeysNext == ApplyNormalizer

SpecKeys == KeysInit /\ [][KeysNext]_vars

----------------------------------------------------------------------------
(* merge_data_all_ages.main: the chunk loop, statement by statement *)

except_merge_loop == <<stage4_vars, ing_vars, hier_vars, adr_vars, er_vars, split_vars,
                       pipe_vars, vocab_vars, keys_vars,
                   limiter_vars,
                   scraper_vars>>

\* the patient chunk that starts at row from + 1, keys normalised
patient_chunk(from) ==
  MapCol([columns |-> patient_csv.columns,
          rows |-> SubSeq(patient_csv.rows, from + 1,
                          Min(from + chunksize, Len(patient_csv.rows)))],
         KEY, merge_to_str_sid)

\* a variant that adds the keys of the chunk to the set of the chunk before
chunk_keys_kept(p) == loop_ids \cup {r[KEY] : r \in {x \in Range(p.rows) : ~isna(x[KEY])}}

\* ids = set(pch["safetyreportid"].dropna().astype(str))
chunk_keys(p) == {r[KEY] : r \in {x \in Range(p.rows) : ~isna(x[KEY])}}

\* the three merges of the loop body and the coercion of the age columns
join_slices(p, rep, ser, rtr, how) ==
  LET b1   == merge(add_prefix(p, "patient_"), add_prefix(rep, "report_"), <<KEY>>, <<KEY>>, how)
      b2   == merge(b1, add_prefix(ser, "serious_"), <<KEY>>, <<KEY>>, how)
      b3   == merge(b2, add_prefix(rtr, "reportr_"), <<KEY>>, <<KEY>>, how)
      ages == Range(age_like_cols(b3))
  IN [b3 EXCEPT !.rows = [i \in DOMAIN b3.rows |->
        [c \in DOMAIN b3.rows[i] |->
           IF c \in ages THEN to_numeric(b3.rows[i][c]) ELSE b3.rows[i][c]] @@ <<>>] \o <<>>]

\* "for pch in pd.read_csv(...)": the next chunk is read and its keys collected
CollectKeys ==
  /\ pc = "merge_loop" /\ loop_step = "next"
  /\ offset < Len(patient_csv.rows)
  /\ loop_ids' = chunk_keys(patient_chunk(offset))
  /\ loop_step' = "filter"
  /\ UNCHANGED <<pc, merge_vars, except_merge_loop, loop_rep, loop_ser, loop_rtr, loop_base>>

\* rep, ser, rtr = _filter_by_ids(..., ids)
FilterTables ==
  /\ pc = "merge_loop" /\ loop_step = "filter"
  /\ loop_rep' = filter_by_ids(report_csv, loop_ids)
  /\ loop_ser' = filter_by_ids(serious_csv, loop_ids)
  /\ loop_rtr' = filter_by_ids(reporter_csv, loop_ids)
  /\ loop_step' = "join"
  /\ UNCHANGED <<pc, merge_vars, except_merge_loop, loop_ids, loop_base>>

\* the prefixes, the three merges, the age coercion and the null count
JoinChunk ==
  /\ pc = "merge_loop" /\ loop_step = "join"
  /\ LET b    == join_slices(patient_chunk(offset), loop_rep, loop_ser, loop_rtr, join_type)
         ages == age_like_cols(b)
     IN /\ loop_base' = b
        /\ age_null_total' =
             IF ages = <<>> THEN age_null_total
             ELSE age_null_total + Cardinality({i \in DOMAIN b.rows : isna(b.rows[i][ages[1]])})
  /\ loop_step' = "append"
  /\ UNCHANGED <<pc, patient_csv, report_csv, serious_csv, reporter_csv, join_type,
                 chunksize, offset, out_csv, wrote_header, merged_total, out_stats,
                 except_merge_loop, loop_ids, loop_rep, loop_ser, loop_rtr>>

\* the frame is appended to the output file; "del pch, rep, ser, rtr, ..., base"
AppendChunk ==
  /\ pc = "merge_loop" /\ loop_step = "append"
  /\ out_csv' = IF wrote_header
                THEN [out_csv EXCEPT !.lines = @ \o csv_lines(loop_base)]
                ELSE [exists |-> TRUE, header |-> loop_base.columns,
                      lines |-> csv_lines(loop_base)]
  /\ wrote_header' = TRUE
  /\ merged_total' = merged_total + Len(loop_base.rows)
  /\ offset' = Min(offset + chunksize, Len(patient_csv.rows))
  /\ loop_rep' = NoFrame /\ loop_ser' = NoFrame /\ loop_rtr' = NoFrame /\ loop_base' = NoFrame
  /\ loop_step' = "next"
  /\ UNCHANGED <<pc, patient_csv, report_csv, serious_csv, reporter_csv, join_type,
                 chunksize, age_null_total, out_stats, except_merge_loop, loop_ids>>

\* after the last chunk: the statistics file is written
LoopFinish ==
  /\ pc = "merge_loop" /\ loop_step = "next"
  /\ offset = Len(patient_csv.rows)
  /\ out_stats' = [exists |-> TRUE, merged_rows |-> merged_total,
                   patient_custom_master_age_null |-> age_null_total]
  /\ pc' = "merge_loop_done"
  /\ UNCHANGED <<patient_csv, report_csv, serious_csv, reporter_csv, join_type,
                 chunksize, offset, out_csv, wrote_header, merged_total,
                 age_null_total, except_merge_loop, loop_vars>>

LoopInit ==
  /\ pc = "merge_loop"
  /\ Stage4Idle /\ IngIdle /\ HierIdle /\ AdrIdle /\ ErIdle /\ SplitIdle /\ PipeIdle /\ VocabIdle
  /\ KeysIdle
  /\ LimiterIdle
  /\ ScraperIdle
  /\ \E np \in 1..MaxLoopRows : \E nr \in 0..(MaxLoopRows - np) :
     \E ns \in 0..(MaxLoopRows - np - nr) : \E nt \in 0..(MaxLoopRows - np - nr - ns) :
       /\ \E r \in [1..np -> PatientRows] : patient_csv = patient_table(r)
       /\ \E s \in [1..nr -> RawSids \cup {NaN}] : report_csv = er_table("receive_date", s)
       /\ \E s \in [1..ns -> RawSids] : serious_csv = er_table("serious", s)
       /\ \E s \in [1..nt -> RawSids] : reporter_csv = er_table("reporter_country", s)
  /\ join_type \in {"inner", "left"}
  /\ chunksize \in 1..MaxChunk
  /\ offset = 0
  /\ out_csv = [exists |-> FALSE, header |-> <<>>, lines |-> <<>>]
  /\ wrote_header = FALSE
  /\ merged_total = 0
  /\ age_null_total = 0
  /\ out_stats = [exists |-> FALSE, merged_rows |-> 0,
                  patient_custom_master_age_null |-> 0]
  /\ loop_step = "next" /\ loop_ids = {}
  /\ loop_rep = NoFrame /\ loop_ser = NoFrame /\ loop_rtr = NoFrame /\ loop_base = NoFrame

LoopNext == CollectKeys \/ FilterTables \/ JoinChunk \/ AppendChunk \/ LoopFinish

SpecMergeLoop == LoopInit /\ [][LoopNext]_vars

----------------------------------------------------------------------------
(* merge/common_utils.py: RateLimiter.wait, called by the worker threads   *)
(* of enrich/rxnav_enrich.py on one shared limiter.  Time is counted in    *)
(* ticks of the monotonic clock.                                           *)

except_limiter_th == <<merge_vars, stage4_vars, ing_vars, hier_vars, adr_vars, er_vars,
                       split_vars, pipe_vars, vocab_vars, keys_vars, loop_vars,
                   scraper_vars>>

Threads == 1..NumThreads

Max(a, b) == IF a >= b THEN a ELSE b

\* wait(), lines 90-92: with no interval the call returns at once; otherwise
\* the thread reads the clock
WaitEnter(t) ==
  /\ pc = "limiter" /\ th_pc[t] = "idle"
  /\ th_calls[t] < MaxCalls
  /\ IF min_interval <= 0
     THEN /\ released' = Append(released, clock)
          /\ th_calls' = [th_calls EXCEPT ![t] = @ + 1]
          /\ UNCHANGED <<th_pc, th_now>>
     ELSE /\ th_now' = [th_now EXCEPT ![t] = clock]
          /\ th_pc' = [th_pc EXCEPT ![t] = "check"]
          /\ UNCHANGED <<released, th_calls>>
  /\ UNCHANGED <<pc, except_limiter_th, min_interval, rl_next, clock, th_wake, th_max>>

\* line 93: if self._next > now, the thread goes to sleep for the difference
WaitCheck(t) ==
  /\ pc = "limiter" /\ th_pc[t] = "check"
  /\ IF rl_next > th_now[t]
     THEN /\ th_wake' = [th_wake EXCEPT ![t] = clock + (rl_next - th_now[t])]
          /\ th_pc' = [th_pc EXCEPT ![t] = "sleep"]
     ELSE /\ th_pc' = [th_pc EXCEPT ![t] = "load"]
          /\ UNCHANGED th_wake
  /\ UNCHANGED <<pc, except_limiter_th, min_interval, rl_next, clock, th_now, th_max,
                 th_calls, released>>

\* lines 94-95: the sleep is over; the thread reads the clock again
WaitWake(t) ==
  /\ pc = "limiter" /\ th_pc[t] = "sleep"
  /\ clock >= th_wake[t]
  /\ th_now' = [th_now EXCEPT ![t] = clock]
  /\ th_pc' = [th_pc EXCEPT ![t] = "load"]
  /\ UNCHANGED <<pc, except_limiter_th, min_interval, rl_next, clock, th_wake, th_max,
                 th_calls, released>>

\* line 96, right-hand side: max(self._next, now)
WaitLoad(t) ==
  /\ pc = "limiter" /\ th_pc[t] = "load"
  /\ th_max' = [th_max EXCEPT ![t] = Max(rl_next, th_now[t])]
  /\ th_pc' = [th_pc EXCEPT ![t] = "store"]
  /\ UNCHANGED <<pc, except_limiter_th, min_interval, rl_next, clock, th_now, th_wake,
                 th_calls, released>>

\* line 96, the assignment to self._next; wait() returns
WaitStore(t) ==
  /\ pc = "limiter" /\ th_pc[t] = "store"
  /\ rl_next' = th_max[t] + min_interval
  /\ released' = Append(released, clock)
  /\ th_calls' = [th_calls EXCEPT ![t] = @ + 1]
  /\ th_pc' = [th_pc EXCEPT ![t] = "idle"]
  /\ UNCHANGED <<pc, except_limiter_th, min_interval, clock, th_now, th_wake, th_max>>

\* the monotonic clock advances; the statements of wait() take no time of
\* their own, so a tick passes only while every thread is outside wait()
\* or asleep in it
Tick ==
  /\ pc = "limiter"
  /\ clock < MaxClock
  /\ \A t \in Threads : th_pc[t] \in {"idle", "sleep"}
  /\ clock' = clock + 1
  /\ UNCHANGED <<pc, except_limiter_th, min_interval, rl_next, th_pc, th_now, th_wake,
                 th_max, th_calls, released>>

\* RateLimiter(qps): _next = 0.0; qps = 0 gives no interval
LimiterInit ==
  /\ pc = "limiter"
  /\ MergeIdle /\ Stage4Idle /\ IngIdle /\ HierIdle /\ AdrIdle /\ ErIdle /\ SplitIdle
  /\ PipeIdle /\ VocabIdle /\ KeysIdle /\ LoopIdle
  /\ ScraperIdle
  /\ min_interval \in {0, Interval}
  /\ rl_next = 0
  /\ clock = 0
  /\ th_pc = [t \in Threads |-> "idle"]
  /\ th_now = [t \in Threads |-> 0]
  /\ th_wake = [t \in Threads |-> 0]
  /\ th_max = [t \in Threads |-> 0]
  /\ th_calls = [t \in Threads |-> 0]
  /\ released = <<>>

LimiterNext ==
  \/ Tick
  \/ \E t \in Threads : WaitEnter(t) \/ WaitCheck(t) \/ WaitWake(t) \/ WaitLoad(t) \/ WaitStore(t)

SpecLimiter == LimiterInit /\ [][LimiterNext]_vars

----------------------------------------------------------------------------
(* enrich/production_drugbank_scraper.py: ProductionScraper.run with its   *)
(* cache and progress files.  The browser session stays valid, so every    *)
(* ingredient that is looked up gets a cache entry (success, no_results    *)
(* or failed).                                                             *)

except_scraper_all == <<merge_vars, stage4_vars, ing_vars, hier_vars, adr_vars, er_vars,
                        split_vars, pipe_vars, vocab_vars, keys_vars, loop_vars,
                        limiter_vars>>

\* [ing for ing in unique_ingredients if ing not in self.cache]
remaining_ingredients(cache) ==
  SelectSeq(unique_ingredients, LAMBDA ing : ing \notin cache)

\* remaining_ingredients[i : i + BATCH_SIZE] for i in range(0, len, BATCH_SIZE)
batches_of(remaining) == read_chunks(remaining, BATCH_SIZE)

\* __init__ (load_cache, load_progress) and run up to the batch loop
ScraperStart ==
  /\ pc = "scraper" /\ scr_pc = "stopped"
  /\ scr_runs < MaxScraperRuns
  /\ scr_runs' = scr_runs + 1
  /\ scr_cache' = cache_file
  /\ LET remaining   == remaining_ingredients(cache_file)
         start_batch == progress_file
     IN IF remaining = <<>>
        THEN \* "All ingredients already processed": write_done and return
             /\ scr_pc' = "stopped" /\ scr_last' = "completed"
             /\ UNCHANGED <<scr_batches, scr_batch, progress_file>>
        ELSE /\ scr_batches' = batches_of(remaining)
             /\ IF start_batch > 0 /\ cache_file = {}
                THEN scr_batch' = 0 /\ progress_file' = 0
                ELSE scr_batch' = start_batch /\ UNCHANGED progress_file
             /\ scr_pc' = "loop" /\ scr_last' = "running"
  /\ scr_item' = 0
  /\ UNCHANGED <<pc, except_scraper_all, unique_ingredients, cache_file>>

\* process_batch, one item: extract_drugbank_data caches the result; every
\* ITEM_CHECKPOINT_EVERY items the cache and the progress are saved
ProcessItem ==
  /\ pc = "scraper" /\ scr_pc = "loop"
  /\ scr_batch < Len(scr_batches)
  /\ scr_item < Len(scr_batches[scr_batch + 1])
  /\ LET batch_num == scr_batch + 1
         ingredient == scr_batches[batch_num][scr_item + 1]
         cache == scr_cache \cup {ingredient}
     IN /\ scr_cache' = cache
        /\ scr_item' = scr_item + 1
        /\ IF (scr_item + 1) % ITEM_CHECKPOINT_EVERY = 0
           THEN cache_file' = cache /\ progress_file' = batch_num
           ELSE UNCHANGED <<cache_file, progress_file>>
  /\ UNCHANGED <<pc, except_scraper_all, unique_ingredients, scr_batches, scr_batch,
                 scr_pc, scr_runs, scr_last>>

\* run, after process_batch: save_progress, and the cache every
\* CHECKPOINT_INTERVAL batches
FinishBatch ==
  /\ pc = "scraper" /\ scr_pc = "loop"
  /\ scr_batch < Len(scr_batches)
  /\ scr_item = Len(scr_batches[scr_batch + 1])
  /\ LET batch_num == scr_batch + 1
     IN /\ progress_file' = batch_num
        /\ cache_file' = IF batch_num % CHECKPOINT_INTERVAL = 0 THEN scr_cache ELSE cache_file
        /\ scr_batch' = batch_num
  /\ scr_item' = 0
  /\ UNCHANGED <<pc, except_scraper_all, unique_ingredients, scr_cache, scr_batches,
                 scr_pc, scr_runs, scr_last>>

\* run, after the loop over batches[start_batch:]: the final save
FinishRun ==
  /\ pc = "scraper" /\ scr_pc = "loop"
  /\ scr_batch >= Len(scr_batches)
  /\ cache_file' = scr_cache
  /\ scr_pc' = "stopped" /\ scr_last' = "completed"
  /\ UNCHANGED <<pc, except_scraper_all, unique_ingredients, progress_file, scr_cache,
                 scr_batches, scr_batch, scr_item, scr_runs>>

\* the process is killed inside the loop: the files stay as last saved
Interrupt ==
  /\ pc = "scraper" /\ scr_pc = "loop"
  /\ scr_pc' = "stopped" /\ scr_last' = "interrupted"
  /\ UNCHANGED <<pc, except_scraper_all, unique_ingredients, cache_file, progress_file,
                 scr_cache, scr_batches, scr_batch, scr_item, scr_runs>>

\* a first start: no cache file and no progress file
ScraperInit ==
  /\ pc = "scraper"
  /\ MergeIdle /\ Stage4Idle /\ IngIdle /\ HierIdle /\ AdrIdle /\ ErIdle /\ SplitIdle
  /\ PipeIdle /\ VocabIdle /\ KeysIdle /\ LoopIdle /\ LimiterIdle
  /\ \E n \in 1..MaxIngredients : unique_ingredients = [i \in 1..n |-> i]
  /\ cache_file = {} /\ progress_file = 0
  /\ scr_cache = {} /\ scr_batches = <<>> /\ scr_batch = 0 /\ scr_item = 0
  /\ scr_pc = "stopped" /\ scr_runs = 0 /\ scr_last = "none"

ScraperNext == ScraperStart \/ ProcessItem \/ FinishBatch \/ FinishRun \/ Interrupt

SpecScraper == ScraperInit /\ [][ScraperNext]_vars

----------------------------------------------------------------------------
(* Specifications: one per program, the other programs idle *)

MergeInit ==
  /\ pc = "merge"
  /\ Stage4Idle /\ IngIdle /\ HierIdle /\ AdrIdle /\ ErIdle /\ SplitIdle /\ PipeIdle /\ VocabIdle
  /\ KeysIdle
  /\ LoopIdle
  /\ LimiterIdle
  /\ ScraperIdle
  /\ \E np \in 1..MaxRows : \E nr \in 0..(MaxRows - np) :
     \E ns \in 0..(MaxRows - np - nr) : \E nt \in 0..(MaxRows - np - nr - ns) :
       /\ \E r \in [1..np -> PatientRows] : patient_csv = patient_table(r)
       /\ \E s \in [1..nr -> RawSids \cup {NaN}] : report_csv = er_table("receive_date", s)
       /\ \E s \in [1..ns -> RawSids] : serious_csv = er_table("serious", s)
       /\ \E s \in [1..nt -> RawSids] : reporter_csv = er_table("reporter_country", s)
  /\ join_type = "inner"
  /\ chunksize \in 1..MaxChunk
  /\ offset = 0
  /\ out_csv = [exists |-> FALSE, header |-> <<>>, lines |-> <<>>]
  /\ wrote_header = FALSE
  /\ merged_total = 0
  /\ age_null_total = 0
  /\ out_stats = [exists |-> FALSE, merged_rows |-> 0,
                  patient_custom_master_age_null |-> 0]

MergeNext == MergeChunk \/ MergeFinish

\* the same program started with --join-type left, right or outer
MergeJoinInit ==
  /\ pc = "merge"
  /\ Stage4Idle /\ IngIdle /\ HierIdle /\ AdrIdle /\ ErIdle /\ SplitIdle /\ PipeIdle /\ VocabIdle
  /\ KeysIdle
  /\ LoopIdle
  /\ LimiterIdle
  /\ ScraperIdle
  /\ \E np \in 1..MaxJoinRows : \E nr \in 0..(MaxJoinRows - np) :
     \E ns \in 0..(MaxJoinRows - np - nr) : \E nt \in 0..(MaxJoinRows - np - nr - ns) :
       /\ \E r \in [1..np -> PatientRows] : patient_csv = patient_table(r)
       /\ \E s \in [1..nr -> RawSids] : report_csv = er_table("receive_date", s)
       /\ \E s \in [1..ns -> RawSids] : serious_csv = er_table("serious", s)
       /\ \E s \in [1..nt -> RawSids] : reporter_csv = er_table("reporter_country", s)
  /\ join_type \in {"left", "right", "outer"}
  /\ chunksize \in 1..MaxChunk
  /\ offset = 0
  /\ out_csv = [exists |-> FALSE, header |-> <<>>, lines |-> <<>>]
  /\ wrote_header = FALSE
  /\ merged_total = 0
  /\ age_null_total = 0
  /\ out_stats = [exists |-> FALSE, merged_rows |-> 0,
                  patient_custom_master_age_null |-> 0]

SpecMergeJoins == MergeJoinInit /\ [][MergeNext]_vars

SpecMerge == MergeInit /\ [][MergeNext]_vars

Stage4Init ==
  /\ pc = "stage4"
  /\ MergeIdle /\ IngIdle /\ HierIdle /\ AdrIdle /\ ErIdle /\ SplitIdle /\ PipeIdle /\ VocabIdle
  /\ KeysIdle
  /\ LoopIdle
  /\ LimiterIdle
  /\ ScraperIdle
  /\ \E nb \in 1..MaxS4Rows : \E nd \in 0..(MaxS4Rows - nb) :
     \E na \in 0..(MaxS4Rows - nb - nd) :
       /\ \E s \in [1..nb -> BaseSids] : baseline_csv = baseline_table(s)
       /\ \E d \in [1..nd -> DrugRows] :
            drug_map_csv = [columns |-> <<KEY, MP, PK>>, rows |-> d]
       /\ \E a \in [1..na -> AdrRows] :
            adr_map_csv = [columns |-> <<KEY, REAC>>, rows |-> a]
  /\ \E v \in VocabCases :
       /\ rxnorm_csv = rx_table(v.rx)
       /\ std_pt_csv = pt_table(v.pt)
       /\ std_soc_csv = soc_table(v.soc)
  /\ drug_mapped = NoFrame /\ adr_mapped = NoFrame /\ final_df = NoFinal
  /\ stats = NoStats
  /\ fb_drug = <<>> /\ fb_adr = <<>> /\ fb_final = NoFinal

Stage4Next == Stage4MergeBack \/ FallbackStage7

SpecStage4 == Stage4Init /\ [][Stage4Next]_vars

IngInit ==
  /\ pc = "ingredients"
  /\ MergeIdle /\ Stage4Idle /\ HierIdle /\ AdrIdle /\ ErIdle /\ SplitIdle /\ PipeIdle /\ VocabIdle
  /\ KeysIdle
  /\ LoopIdle
  /\ LimiterIdle
  /\ ScraperIdle
  /\ (IngGraphInit \/ IngChainInit)
  /\ std_ing = IngNotRun

IngNext == StepIngredients

SpecIngredients == IngInit /\ [][IngNext]_vars

----------------------------------------------------------------------------
(* Claims about the streaming merge *)

\* one in-memory inner join of the four tables on the normalised report
\* key, as a multiset of output lines; a row without a key joins nothing
JoinTuples ==
  {t \in (DOMAIN patient_csv.rows) \X (DOMAIN report_csv.rows)
         \X (DOMAIN serious_csv.rows) \X (DOMAIN reporter_csv.rows) :
     LET k == merge_to_str_sid(patient_csv.rows[t[1]][KEY])
     IN /\ ~isna(k)
        /\ merge_to_str_sid(report_csv.rows[t[2]][KEY]) = k
        /\ merge_to_str_sid(serious_csv.rows[t[3]][KEY]) = k
        /\ merge_to_str_sid(reporter_csv.rows[t[4]][KEY]) = k}

JoinLine(t) ==
  <<to_numeric(patient_csv.rows[t[1]]["patient_custom_master_age"]),
    merge_to_str_sid(patient_csv.rows[t[1]][KEY]),
    report_csv.rows[t[2]]["receive_date"],
    serious_csv.rows[t[3]]["serious"],
    reporter_csv.rows[t[4]]["reporter_country"]>>

InMemoryInnerJoin ==
  [x \in {JoinLine(t) : t \in JoinTuples} |->
     Cardinality({t \in JoinTuples : JoinLine(t) = x})]

\* C1: with join type inner and any chunk size, the lines the streaming
\* merge has appended when it ends are, as a multiset, the rows of one
\* in-memory inner join of the four tables on the report key
C1_StreamingInnerJoinEqualsInMemory ==
  (pc = "merge_done" /\ join_type = "inner")
    => BagOfSeq(out_csv.lines) = InMemoryInnerJoin

\* the four tables joined with pandas merge in one pass, keys normalised and
\* age coerced as main does for a chunk
with_numeric_ages(df) == MapCol(df, "patient_patient_custom_master_age", to_numeric)

in_memory_join(how) ==
  with_numeric_ages(
    merge(merge(merge(add_prefix(MapCol(patient_csv, KEY, merge_to_str_sid), "patient_"),
                      add_prefix(MapCol(report_csv, KEY, merge_to_str_sid), "report_"),
                      <<KEY>>, <<KEY>>, how),
                add_prefix(MapCol(serious_csv, KEY, merge_to_str_sid), "serious_"),
                <<KEY>>, <<KEY>>, how),
          add_prefix(MapCol(reporter_csv, KEY, merge_to_str_sid), "reportr_"),
          <<KEY>>, <<KEY>>, how))

\* C12: with join type left, right or outer, the lines the streaming merge
\* has appended when it ends are, as a multiset, the rows of the same join
\* of the four full tables; a report, report_serious or reporter row whose
\* key is in no patient chunk is among them for right and outer.
C12_StreamingOtherJoinsEqualInMemory ==
  (pc = "merge_done" /\ join_type \in {"left", "right", "outer"})
    => BagOfSeq(out_csv.lines) = BagOfSeq(csv_lines(in_memory_join(join_type)))

\* the joined frame of the patient chunk that starts at the current offset
ChunkFrame ==
  LET last == Min(offset + chunksize, Len(patient_csv.rows))
      pch  == [columns |-> patient_csv.columns,
               rows |-> SubSeq(patient_csv.rows, offset + 1, last)]
  IN merge_chunk(pch, report_csv, serious_csv, reporter_csv, join_type)

\* C28: every data row appended to the streamed output has exactly the
\* columns, in the order, of the header written with the first chunk, also
\* when a filtered slice of a first or later chunk is empty.
C28_AppendedRowsHaveHeaderColumns ==
  [][(pc = "merge" /\ offset < Len(patient_csv.rows) /\ offset' # offset
        /\ ChunkFrame.rows # <<>>)
       => ChunkFrame.columns = out_csv'.header]_vars

\* the patient rows from + 1 .. from + chunksize as read from the file
RawChunk(from) ==
  [columns |-> patient_csv.columns,
   rows |-> SubSeq(patient_csv.rows, from + 1, Min(from + chunksize, Len(patient_csv.rows)))]

\* the report keys of the patient rows from + 1 .. from + chunksize
KeysOfChunk(from) ==
  {k \in {merge_to_str_sid(r[KEY]) : r \in Range(RawChunk(from).rows)} : ~isna(k)}

\* the lines of the chunks that start at row from + 1 and end at row upto
RECURSIVE LinesOfChunks(_, _)
LinesOfChunks(from, upto) ==
  IF from >= upto THEN <<>>
  ELSE csv_lines(merge_chunk(RawChunk(from), report_csv, serious_csv, reporter_csv, join_type))
       \o LinesOfChunks(from + chunksize, upto)

\* C24: the processing of a patient chunk starts only after every row of
\* the chunk before has been appended to the output file, and the key set,
\* the filtered slices and the joined frame it works with are those of
\* this chunk, none of the chunk before.
C24_ChunkStartsAfterPreviousIsAppended ==
  pc = "merge_loop" =>
    /\ out_csv.lines = LinesOfChunks(0, offset)
    /\ loop_step \in {"filter", "join", "append"} => loop_ids = KeysOfChunk(offset)
    /\ loop_step \in {"join", "append"} =>
         /\ loop_rep = filter_by_ids(report_csv, KeysOfChunk(offset))
         /\ loop_ser = filter_by_ids(serious_csv, KeysOfChunk(offset))
         /\ loop_rtr = filter_by_ids(reporter_csv, KeysOfChunk(offset))
    /\ loop_step = "append" =>
         loop_base = merge_chunk(RawChunk(offset), report_csv, serious_csv, reporter_csv,
                                 join_type)

\* the second chunk is being joined: the first chunk wrote rows, the two
\* chunks have different keys and both have rows in report
C24_Witness ==
  /\ pc = "merge_loop" /\ loop_step = "join"
  /\ offset = chunksize
  /\ out_csv.lines # <<>>
  /\ loop_rep.rows # <<>>
  /\ KeysOfChunk(0) # {} /\ KeysOfChunk(offset) # {}
  /\ KeysOfChunk(0) \cap KeysOfChunk(offset) = {}

\* chunk size 1, two chunks that both produced rows
C1_Witness ==
  /\ pc = "merge_done" /\ join_type = "inner" /\ chunksize = 1
  /\ Len(patient_csv.rows) >= 2
  /\ Len(out_csv.lines) >= 2
  /\ \E i, j \in DOMAIN patient_csv.rows :
       /\ i # j /\ patient_csv.rows[i][KEY] # patient_csv.rows[j][KEY]
       /\ merge_to_str_sid(patient_csv.rows[i][KEY]) = merge_to_str_sid(patient_csv.rows[j][KEY])

----------------------------------------------------------------------------
(* Stage 4 / Stage 7: the final pair table *)

\* the lines of a final table with the report key (first column) normalised
NormLines(lines) == [i \in DOMAIN lines |-> [lines[i] EXCEPT ![1] = to_str_sid(@)]] \o <<>>

\* C2: on the same input files the fallback merger and the pandas merger
\* write the same multiset of final rows.
C2_FallbackWritesSameRowsAsPandas ==
  (final_df.exists /\ fb_final.exists) =>
    BagOfSeq(NormLines(final_df.lines)) = BagOfSeq(NormLines(fb_final.lines))

\* the distinct drug mentions (product name) of report k that carry an INN,
\* and its distinct reaction mentions (text) that carry a PT concept, as
\* stage4_merge_back resolved them
ResolvedDrugs(k) ==
  {r[MP] : r \in {x \in Range(drug_mapped.rows) : x[KEY] = k /\ ~isna(x["INN"])}}
ResolvedReactions(k) ==
  {r[REAC] : r \in {x \in Range(adr_mapped.rows) : x[KEY] = k /\ ~isna(x["pt_id"])}}

\* the same for the tables of the fallback merger
FbResolvedDrugs(k) ==
  {r.medicinal_product : r \in {x \in Range(fb_drug) : x.sid = k /\ truthy(x.inn)}}
FbResolvedReactions(k) ==
  {r.reaction_meddrapt : r \in {x \in Range(fb_adr) : x.sid = k /\ truthy(x.pt_id)}}

\* C3: in both mergers every final row belongs to a report key that has a
\* resolved drug mention and a resolved reaction mention; a key without one
\* of them contributes no row.
C3_NoRowWithoutResolvedDrugAndReaction ==
  /\ final_df.exists =>
       \A i \in DOMAIN final_df.lines :
         /\ ResolvedDrugs(final_df.lines[i][1]) # {}
         /\ ResolvedReactions(final_df.lines[i][1]) # {}
  /\ fb_final.exists =>
       \A i \in DOMAIN fb_final.lines :
         /\ FbResolvedDrugs(strip(fb_final.lines[i][1])) # {}
         /\ FbResolvedReactions(strip(fb_final.lines[i][1])) # {}

\* the value of column c in line i of the final table of stage4_merge_back
FinalCell(i, c) ==
  final_df.lines[i][CHOOSE j \in DOMAIN final_df.header : final_df.header[j] = c]

\* C27: every row of the final pair table written by stage4_merge_back has
\* a non-null pt_id and a non-null INN; a reaction text that matched no
\* MedDRA PT concept, or a product without INN, produces no row.
C27_FinalRowsHavePtAndInn ==
  final_df.exists =>
    \A i \in DOMAIN final_df.lines :
      ~isna(FinalCell(i, "pt_id")) /\ ~isna(FinalCell(i, "INN"))

\* the half of C27 about the INN
FinalRowsHaveInn ==
  final_df.exists => \A i \in DOMAIN final_df.lines : ~isna(FinalCell(i, "INN"))

\* the number of (drug mention, reaction mention) combinations of one report,
\* over the reports on both sides
MentionPairs(drug, adr) ==
  LET drugs == {<<r[KEY], r[MP]>> : r \in Range(drug.rows)}
      reacs == {<<r[KEY], r[REAC]>> : r \in Range(adr.rows)}
  IN Cardinality({p \in drugs \X reacs : p[1][1] = p[2][1]})

\* C25: each pair-count estimate of the coverage statistics equals the sum,
\* over the report keys on both the drug side and the reaction side at that
\* stage, of the report's drug mentions times its reaction mentions.
C25_PairEstimatesAreSumsOfMentionProducts ==
  stats.exists =>
    /\ stats.pairs_pre_enrich_est =
         MentionPairs(s4_drug_map(drug_map_csv), s4_adr_map(adr_map_csv))
    /\ stats.pairs_after_inn_est = MentionPairs(drug_mapped, s4_adr_map(adr_map_csv))
    /\ stats.pairs_after_pt_est = MentionPairs(drug_mapped, adr_mapped)

\* the number of final lines of stage4_merge_back for baseline row b, product
\* name mp and reaction text reac
FinalCount(b, mp, reac) ==
  Cardinality({i \in DOMAIN final_df.lines :
                 /\ final_df.lines[i][2] = baseline_csv.rows[b]["report_row"]
                 /\ final_df.lines[i][3] = mp
                 /\ final_df.lines[i][5] = reac})

\* C4: the final table of stage4_merge_back holds exactly one row for every
\* (baseline row, distinct resolved drug mention, distinct resolved reaction
\* mention) of a report, and no combination twice.
C4_OneRowPerResolvedCombination ==
  final_df.exists =>
    \A b \in DOMAIN baseline_csv.rows :
      LET k == to_str_sid(baseline_csv.rows[b][KEY])
      IN \A mp \in {<<"A">>, <<"B">>} : \A reac \in {<<"H">>, <<"N">>} :
           /\ FinalCount(b, mp, reac) <= 1
           /\ (mp \in ResolvedDrugs(k) /\ reac \in ResolvedReactions(k))
                => FinalCount(b, mp, reac) = 1

\* a run of stage4_merge_back on a drug_map that repeats a mention, where
\* one report has two resolved drugs and a resolved reaction and two
\* baseline rows
C4_Witness ==
  /\ final_df.exists
  /\ \E i, j \in DOMAIN drug_map_csv.rows : i # j /\ drug_map_csv.rows[i] = drug_map_csv.rows[j]
  /\ \E b \in DOMAIN baseline_csv.rows :
       LET k == to_str_sid(baseline_csv.rows[b][KEY])
       IN /\ Cardinality(ResolvedDrugs(k)) = 2
          /\ ResolvedReactions(k) # {}
          /\ Len(final_df.lines) >= 2

\* the PT concepts standard_reactions.csv.gz lists for a reaction text
PtsOf(reac) ==
  {r["MedDRA_concept_id"] : r \in {x \in Range(std_pt_csv.rows) :
                                     x[REAC] = reac /\ ~isna(x["MedDRA_concept_id"])}}

\* the SOC fields the PT-to-SOC mapping gives PT p: three empty fields when
\* it has no row for p
SocFieldsOf(p) ==
  IF \A r \in Range(std_soc_csv.rows) : r["MedDRA_concept_id_1"] # p
  THEN {<<NaN, NaN, NaN>>}
  ELSE {<<r["MedDRA_concept_id"], r["MedDRA_concept_code"], r["MedDRA_concept_name"]>> :
          r \in {x \in Range(std_soc_csv.rows) : x["MedDRA_concept_id_1"] = p}}

\* a final line of baseline row b for product mp, reaction text reac and PT
\* p whose SOC fields are those the mapping gives p
HasPairLine(lines, b, mp, reac, p) ==
  \E i \in DOMAIN lines :
    /\ lines[i][2] = baseline_csv.rows[b]["report_row"]
    /\ lines[i][3] = mp /\ lines[i][5] = reac /\ lines[i][6] = p
    /\ <<lines[i][8], lines[i][9], lines[i][10]>> \in SocFieldsOf(p)

\* the mentions of adr_map.csv.gz under report key k, the key read by norm
ReactionTextsOf(k, sids) ==
  {adr_map_csv.rows[a][REAC] : a \in {x \in DOMAIN adr_map_csv.rows : sids[x] = k}}

\* C11: in both mergers a reaction mention whose text has a PT has its line
\* for every resolved drug of the report; when the PT has no row in the
\* PT-to-SOC mapping the three SOC fields of the line are empty, and the
\* report's mentions whose PT has a SOC keep their lines with the SOC filled
\* in.
C11_PtWithoutSocKeepsItsPairs ==
  /\ final_df.exists =>
       \A b \in DOMAIN baseline_csv.rows :
         \A mp \in ResolvedDrugs(to_str_sid(baseline_csv.rows[b][KEY])) :
           \A reac \in ReactionTextsOf(to_str_sid(baseline_csv.rows[b][KEY]),
                                       [a \in DOMAIN adr_map_csv.rows |->
                                          to_str_sid(adr_map_csv.rows[a][KEY])]) :
             PtsOf(reac) # {} => \E p \in PtsOf(reac) : HasPairLine(final_df.lines, b, mp, reac, p)
  /\ fb_final.exists =>
       \A b \in DOMAIN baseline_csv.rows :
         \A mp \in FbResolvedDrugs(strip(cell(baseline_csv.rows[b][KEY]))) :
           \A reac \in ReactionTextsOf(strip(cell(baseline_csv.rows[b][KEY])),
                                       [a \in DOMAIN adr_map_csv.rows |->
                                          strip(cell(adr_map_csv.rows[a][KEY]))]) :
             PtsOf(reac) # {} => \E p \in PtsOf(reac) : HasPairLine(fb_final.lines, b, mp, reac, p)

\* both mergers have run on a report with a resolved drug, a reaction whose
\* PT has a SOC and a reaction whose PT has none; both lines are there
C11_Witness ==
  /\ final_df.exists /\ fb_final.exists
  /\ std_soc_csv.rows = <<soc_row(P10, S13)>>
  /\ \E b \in DOMAIN baseline_csv.rows :
       /\ baseline_csv.rows[b][KEY] = <<"1">>
       /\ <<"A">> \in ResolvedDrugs(<<"1">>) \cap FbResolvedDrugs(<<"1">>)
       /\ PtsOf(<<"N">>) = {P11} /\ PtsOf(<<"H">>) = {P10}
       /\ \A lines \in {final_df.lines, fb_final.lines} :
            /\ HasPairLine(lines, b, <<"A">>, <<"N">>, P11)
            /\ HasPairLine(lines, b, <<"A">>, <<"H">>, P10)
            /\ \E i \in DOMAIN lines : lines[i][5] = <<"N">> /\ lines[i][8] = NaN

----------------------------------------------------------------------------
(* The ingredient resolver *)

\* the standard RxNorm concepts and their class
StdConcepts ==
  {r["concept_id"] : r \in {x \in Range(concept.rows) :
     x["vocabulary_id"] = <<"RxNorm">> /\ x["standard_concept"] = <<"S">>}}
ClassOf(i) ==
  (CHOOSE r \in Range(concept.rows) : r["concept_id"] = i)["concept_class_id"]
IsIngredient(i) == i \in StdConcepts /\ ClassOf(i) = Ingredient

\* the relationship edges between standard concepts, self-loops left out
IngEdges ==
  {<<r["concept_id_1"], r["concept_id_2"]>> :
     r \in {x \in Range(concept_relationship.rows) :
              /\ x["concept_id_1"] # x["concept_id_2"]
              /\ x["concept_id_1"] \in StdConcepts /\ x["concept_id_2"] \in StdConcepts}}

Succ(F) == {e[2] : e \in {x \in IngEdges : x[1] \in F}}

\* the Ingredient concepts reached from the concepts F within h edges, on
\* paths whose intermediate concepts are not Ingredients
RECURSIVE IngredientsWithin(_, _)
IngredientsWithin(F, h) ==
  IF h = 0 \/ F = {} THEN {}
  ELSE {i \in Succ(F) : IsIngredient(i)}
       \cup IngredientsWithin({i \in Succ(F) : ~IsIngredient(i)}, h - 1)

\* the concepts reached from F over h or fewer edges
RECURSIVE ReachWithin(_, _)
ReachWithin(F, h) ==
  IF h = 0 \/ F = {} THEN {} ELSE Succ(F) \cup ReachWithin(Succ(F), h - 1)

\* the ingredient concept an output row stands for: the Ingredient that
\* ends its path, which is level 4 in a row of a 1-2-3-4 path and the
\* concept named by RxNorm_concept_code in a row of a 1-2-3 path
RowIngredient(row) ==
  IF RX("id", 4) \in std_ing.columns /\ ~isna(row[RX("id", 4)]) THEN row[RX("id", 4)]
  ELSE Tail(row["RxNorm_concept_code"])

\* the ingredients the resolver returns for start concept c
Returned(c) ==
  {RowIngredient(r) : r \in {x \in Range(std_ing.rows) : x["RxNorm_concept_id"] = c}}

\* the spec scenario: concepts 1 (not an Ingredient) and 2 (Ingredient), one
\* edge 1 -> 2
IngScenario ==
  /\ Len(concept.rows) = 2
  /\ concept_relationship.rows = <<rel_row(1, 2, <<"k1">>)>>

\* C5: a start concept that is not an Ingredient and has a direct edge to an
\* Ingredient i gets i; in the scenario the result for 1 is exactly {2}.
C5_DirectIngredientIsReturned ==
  std_ing.exists =>
    /\ \A c \in rx_ids \cap StdConcepts : \A i \in StdConcepts :
         (~IsIngredient(c) /\ <<c, i>> \in IngEdges /\ IsIngredient(i)) => i \in Returned(c)
    /\ IngScenario => Returned(IdText(1)) = {IdText(2)}

\* C6: every Ingredient reachable from a start concept within six edges
\* that are no self-loops, over concepts that are not Ingredients, is
\* returned for it.
C6_IngredientWithinSixHopsIsReturned ==
  std_ing.exists =>
    \A c \in rx_ids \cap StdConcepts :
      (IngredientsWithin({c}, MaxHops) \ {c}) \subseteq Returned(c)

\* C7: the ingredients returned for a start concept never include the start
\* concept, and each of them is reached over edges that are no self-loops.
C7_NeverReturnsStartNorSelfLoopOnly ==
  std_ing.exists =>
    \A c \in rx_ids :
      /\ c \notin Returned(c)
      /\ Returned(c) \subseteq ReachWithin({c}, MaxHops)

\* C22: an Ingredient reached on a path is not expanded: every ingredient
\* returned for a start concept is reached from it over concepts that are
\* not Ingredients
C22_IngredientIsTerminal ==
  std_ing.exists =>
    \A c \in rx_ids : Returned(c) \subseteq IngredientsWithin({c}, MaxHops)

\* C26: the concept named by RxNorm_concept_code, RxNorm_concept_name and
\* RxNorm_concept_class_id in a row of the ingredient table is of class
\* Ingredient
C26_OutputRowsNameAnIngredient ==
  std_ing.exists =>
    \A i \in DOMAIN std_ing.rows : std_ing.rows[i]["RxNorm_concept_class_id"] = Ingredient

\* the relationship table with every repeated edge removed
WithoutRepeatedEdges(rel) ==
  [rel EXCEPT !.rows = KeepRows(rel.rows, LAMBDA i : \A j \in 1..(i - 1) :
                                            rel.rows[j] # rel.rows[i])]

HasRepeatedEdge ==
  \E i, j \in DOMAIN concept_relationship.rows :
    i < j /\ concept_relationship.rows[i] = concept_relationship.rows[j]

\* C8: a repeated relationship edge does not change the output of the
\* resolver, and no output row is written twice.
C8_RepeatedEdgeChangesNothing ==
  std_ing.exists =>
    /\ std_ing.rows =
         ing_std_ing(standard_drugs,
                     rx_all(WithoutRepeatedEdges(concept_relationship), ing_c(concept),
                            rx_ids)).rows
    /\ \A i, j \in DOMAIN std_ing.rows : i # j => std_ing.rows[i] # std_ing.rows[j]

\* the resolver has run on a table with a repeated edge that leaves a start
\* concept, and has returned an ingredient for that start concept
C8_Witness ==
  /\ std_ing.exists
  /\ HasRepeatedEdge
  /\ \E i, j \in DOMAIN concept_relationship.rows :
       /\ i < j /\ concept_relationship.rows[i] = concept_relationship.rows[j]
       /\ concept_relationship.rows[i]["concept_id_1"] \in rx_ids
       /\ Returned(concept_relationship.rows[i]["concept_id_1"]) # {}

----------------------------------------------------------------------------
(* The hierarchy resolver *)
MedIds == {r["concept_id"] : r \in Range(concept.rows)}
MedClassOf(i) ==
  (CHOOSE r \in Range(concept.rows) : r["concept_id"] = i)["concept_class_id"]
MedEdge(a, b) ==
  \E r \in Range(concept_relationship.rows) : r["concept_id_1"] = a /\ r["concept_id_2"] = b

\* the top-level categories the PT-to-SOC table holds for report k and PT p
SocOf(k, p) ==
  {r[M("id", 4)] : r \in {x \in Range(pt_to_soc.rows) :
                            x[KEY] = k /\ x["MedDRA_concept_id"] = p}}

\* the spec scenario: PT 10 -> HLT 11 -> HLGT 12 -> SOC 13 and nothing else
HierScenario ==
  /\ MedClassOf(P10) = PT /\ MedClassOf(P11) = HLT
  /\ MedClassOf(P12) = HLGT /\ MedClassOf(S13) = SOC
  /\ concept_relationship.rows = <<id_row(P10, P11), id_row(P11, P12), id_row(P12, S13)>>

\* C9: for a PT p with edges p -> h -> g -> s over an HLT h, an HLGT g and a
\* SOC s, the PT-to-SOC table holds s for every report reaction mapped to p;
\* in the scenario 10 -> 11 -> 12 -> 13 the result for 10 is 13.
C9_SocOfLinkedPtIsListed ==
  med_rel.exists =>
    /\ \A p, h, g, s \in MedIds :
         ( /\ MedClassOf(p) = PT /\ MedClassOf(h) = HLT
           /\ MedClassOf(g) = HLGT /\ MedClassOf(s) = SOC
           /\ MedEdge(p, h) /\ MedEdge(h, g) /\ MedEdge(g, s) )
         => \A r \in Range(std_rx.rows) :
              r["MedDRA_concept_id"] = p => s \in SocOf(r[KEY], p)
    /\ HierScenario => SocOf(<<"r1">>, P10) = {S13}

----------------------------------------------------------------------------
(* The PT-to-SOC mapping of enrich/ADR.py *)

\* the rows of CONCEPT.csv of a class
AdrConceptsOf(class) == {concept.rows[i] : i \in {j \in DOMAIN concept.rows : concept.rows[j]["concept_class_id"] = class}}

\* the candidates of PT p: the ancestor rows from a SOC concept down to p
SocCandidates(p) ==
  {concept_ancestor.rows[i] : i \in {j \in DOMAIN concept_ancestor.rows :
     /\ concept_ancestor.rows[j]["descendant_concept_id"] = p
     /\ \E s \in AdrConceptsOf(SOC) :
          s["concept_id"] = concept_ancestor.rows[j]["ancestor_concept_id"]}}

\* the candidate nearest to the PT, the lowest integer id among the nearest
IsChosenSoc(x, cands) ==
  \A y \in cands :
    \/ int_of(x["min_levels_of_separation"]) < int_of(y["min_levels_of_separation"])
    \/ /\ int_of(x["min_levels_of_separation"]) = int_of(y["min_levels_of_separation"])
       /\ int_of(x["ancestor_concept_id"]) <= int_of(y["ancestor_concept_id"])

\* the rows written for PT p
SocRowsOf(p) ==
  {i \in DOMAIN adr_std_soc.frame.rows : adr_std_soc.frame.rows[i]["MedDRA_concept_id_1"] = p}

\* row r carries the id, code and name of the SOC concept s
IsSocRowOf(r, s) ==
  /\ r["MedDRA_concept_id"] = s["concept_id"]
  /\ r["MedDRA_concept_code"] = s["concept_code"]
  /\ r["MedDRA_concept_name"] = s["concept_name"]

\* C10: the mapping written by enrich/ADR.py holds at most one SOC per PT;
\* the row of a PT with several SOC ancestors carries the nearest SOC, among
\* the nearest the one with the lowest integer concept_id (9 before 10), and
\* its id, code and name all come from that SOC.
C10_NearestThenLowestIdSocIsChosen ==
  adr_std_soc.exists =>
    \A p \in {P20, P21} :
      /\ Cardinality(SocRowsOf(p)) <= 1
      /\ \A i \in SocRowsOf(p) :
           \E x \in SocCandidates(p) :
             /\ IsChosenSoc(x, SocCandidates(p))
             /\ \E s \in AdrConceptsOf(SOC) :
                  /\ s["concept_id"] = x["ancestor_concept_id"]
                  /\ IsSocRowOf(adr_std_soc.frame.rows[i], s)

----------------------------------------------------------------------------
(* The ER tables built from shard files *)

\* the frames of the shards in the order the reads were submitted
parts_in_order(usecols) == [i \in DOMAIN shards |-> read_csv_fast(shards[i], usecols)] \o <<>>

\* C13: the set of rows of patient.csv.gz is the same for every order in
\* which the shard reads complete: it is the set written when they complete
\* in the order they were submitted, also when a report key occurs in two
\* shards with different values and one row per key is kept.
C13_RowsSameForEveryCompletionOrder ==
  patient_out.exists =>
    Range(patient_out.frame.rows)
      = Range(patient_er(concat_parts(parts_in_order(patient_usecols))).rows)

\* C19: when companynumb, an optional column of the report shards, is absent
\* from every shard, step_report completes without raising and writes its
\* three tables, reporter.csv.gz without the column reporter_company.
C19_AbsentOptionalColumnNarrowsOutput ==
  (er_report_out.ended /\ \A i \in DOMAIN shards : "companynumb" \notin Range(shards[i].columns))
    => /\ ~er_report_out.raised
       /\ er_report_out.report.exists /\ er_report_out.serious.exists
       /\ er_report_out.reporter.exists
       /\ "reporter_company" \notin Range(er_report_out.reporter.frame.columns)

----------------------------------------------------------------------------
(* The split stages *)

\* no "insert" follows a "lookup" in the log
InsertsBeforeLookups(log) ==
  \A i, j \in DOMAIN log : (log[i] = "lookup" /\ log[j] = "insert") => j < i

\* C14: in a split stage run with a baseline, the index file of an earlier
\* run is replaced by a new one that holds keys of this baseline only, every
\* insert precedes the first lookup, and when the stage has ended the index
\* file no longer exists.
C14_IndexCreatedFreshFilledOnceAndDiscarded ==
  /\ (split_base.given /\ pc # "split_start")
       => /\ sid_db.exists => sid_db.fresh
          /\ StaleIndex.sids \cap sid_db.sids = {}
  /\ InsertsBeforeLookups(index_log)
  /\ (split_base.given /\ pc = "split_done") => ~sid_db.exists

\* C16: when reactions.csv.gz lacks safetyreportid or reaction_meddrapt,
\* split_adr aborts: it never streams a chunk or finishes, and when it has
\* aborted no output file has been created, truncated or modified.
C16_MissingRequiredColumnAbortsWithoutOutput ==
  (split_stage = "adr" /\ split_missing(split_in, "adr") # {})
    => /\ pc \notin {"split_stream", "split_done"}
       /\ pc = "split_abort" => (~split_map.fresh /\ ~split_dict.fresh)

\* the normalized keys of the baseline file
SplitBaselineKeys == {split_to_str_sid(r[KEY]) : r \in Range(split_base.rows)}

\* the (key, text) pairs of the lines of the map
MapPairs ==
  LET at(c) == CHOOSE j \in DOMAIN split_map.header : split_map.header[j] = c
  IN {<<l[at(KEY)], l[at(text_col(split_stage))]>> : l \in Range(split_map.lines)}

\* the (key, text) pairs of the input rows whose normalized key the index holds
ProbePairs ==
  {<<split_to_str_sid(r[KEY]), r[text_col(split_stage)]>> :
     r \in {x \in Range(split_in.rows) : split_to_str_sid(x[KEY]) \in sid_db.sids}}

\* C23: once built, the index holds the distinct normalized keys of the
\* baseline, whatever its duplicates and chunks; the rows the stage keeps are
\* the input rows whose normalized key is in the index, whatever the chunks
\* and lookup batches
C23_IndexHoldsBaselineKeysAndLookupKeepsTheirRows ==
  /\ (split_base.given /\ pc \in {"split_open", "split_stream", "split_done"}) =>
       sid_db.sids = SplitBaselineKeys
  /\ (split_base.given /\ pc = "split_done") => MapPairs = ProbePairs

\* files without a missing key
NoMissingKey ==
  /\ \A r \in Range(split_base.rows) : ~isna(r[KEY])
  /\ \A r \in Range(split_in.rows) : KEY \in DOMAIN r => ~isna(r[KEY])

----------------------------------------------------------------------------
(* The stages of run_pipeline *)

\* what an interrupted writer leaves behind
Incomplete == {"empty", "truncated", "partial"}

\* C15: an output left incomplete by an interrupted stage is never taken as
\* ready by the stage that writes it, and never read by a later stage, also
\* when complete outputs of an older run sit beside it
C15_InterruptedStageIsRerunFromScratch ==
  /\ \A e \in skipped : e.state \notin Incomplete
  /\ \A e \in pipe_log : e.file \in OutFiles => e.state \notin Incomplete

\* the compressed inputs read from Stage-3 on
CheckedInputs == {"baseline", "patient", "report", "report_serious", "reporter",
                  "reactions", "drugcharacteristics"}

\* C17: every read of the baseline or of an ER table by a stage from Stage-3
\* on is of a file that passed verify_gz_crc before in the same run, and no
\* stage after Stage-3 starts while one of the ER tables is corrupted
C17_InputsPassPrecheckBeforeUse ==
  /\ \A e \in pipe_log : e.file \in CheckedInputs => e.verified
  /\ (\E e \in pipe_log : e.stage # "s3") =>
       \A f \in CheckedInputs \ {"baseline"} : files[f] # "corrupt"

----------------------------------------------------------------------------
(* Loading the vocabulary and the RxNorm join *)

\* the lines whose identifier fields are all integers
coercible(rows, ids) == SelectSeq(rows, LAMBDA r : \A c \in ids : IsDigits(r[c]))

\* C18: load_vocab does not abort on a line whose concept_id, concept_id_1
\* or concept_id_2 is not an integer; it returns the other lines
C18_LoadVocabDropsUncoercibleRows ==
  /\ vocab_error # "ValueError"
  /\ pc \in {"vocab_relationship", "vocab_drugs", "vocab_done"} =>
       concept_loaded = read_vocab_csv(ConceptCols,
                                       coercible(vocab_files.concept, {"concept_id"}),
                                       {"concept_id"})
  /\ pc \in {"vocab_drugs", "vocab_done"} =>
       relationship_loaded =
         read_vocab_csv(RelationshipCols,
                        coercible(vocab_files.relationship, {"concept_id_1", "concept_id_2"}),
                        {"concept_id_1", "concept_id_2"})

\* C20: step_standard_drugs does not fail when two RxNorm concepts have the
\* same numeric concept_code, and it writes at most one row for a row of
\* drugs.csv.gz
C20_DuplicateLookupKeyKeepsOneRow ==
  /\ vocab_error # "MergeError"
  /\ pc = "vocab_done" =>
       \A i \in DOMAIN vocab_files.drugs.rows :
         Cardinality({j \in DOMAIN std_drugs_file.rows :
                        /\ std_drugs_file.rows[j][KEY] = vocab_files.drugs.rows[i][KEY]
                        /\ std_drugs_file.rows[j]["rxcui"] = vocab_files.drugs.rows[i]["rxcui"]})
           <= 1

----------------------------------------------------------------------------
(* The report keys of the stages *)

\* digits followed by ".0"
IsDotZero(x) == ~isna(x) /\ endswith_dot0(x) /\ IsDigits(SubSeq(x, 1, Len(x) - 2))

\* C21: every normalizer maps digits with a trailing ".0" to the key it
\* makes of the digits alone, and the stages agree on that key
C21_TrailingDotZeroGivesSameKeyEverywhere ==
  IsDotZero(sid_raw) =>
    /\ \A f \in DOMAIN sid_keys :
         sid_keys[f] = normalized(f, SubSeq(sid_raw, 1, Len(sid_raw) - 2))
    /\ \A f, g \in DOMAIN sid_keys : sid_keys[f] = sid_keys[g]

----------------------------------------------------------------------------
(* The rate limiter of the RxNav enrichment *)

\* C29: with qps > 0, any two calls of wait() on the shared limiter return
\* at least 1/qps apart, under every interleaving of the worker threads.
C29_ReleasesAreOneIntervalApart ==
  min_interval > 0 =>
    \A i, j \in DOMAIN released :
      i < j => released[j] - released[i] >= min_interval

\* the same for the calls of a limiter used by one thread only
OneThreadIsSpaced ==
  (min_interval > 0 /\ \A t \in Threads : t # 1 => th_calls[t] = 0 /\ th_pc[t] = "idle") =>
    \A i, j \in DOMAIN released :
      i < j => released[j] - released[i] >= min_interval

----------------------------------------------------------------------------
(* The DrugBank scraper restarted *)

\* C30: when the scraper is restarted after an interruption, every input
\* ingredient not yet in the cache is processed in the resumed run: after
\* an uninterrupted resumed run every input ingredient has a cache entry.
C30_ResumedRunCachesEveryIngredient ==
  (pc = "scraper" /\ scr_pc = "stopped" /\ scr_runs >= 2 /\ scr_last = "completed")
    => cache_file = Range(unique_ingredients)

\* the same for a first run that is not interrupted
FirstRunCachesEveryIngredient ==
  (pc = "scraper" /\ scr_pc = "stopped" /\ scr_runs = 1 /\ scr_last = "completed")
    => cache_file = Range(unique_ingredients)

====
